---- MODULE Spec2Model ----
(***************************************************************************)
(* Session pool / admission / lifecycle manager of the WhatsApp gateway.   *)
(*                                                                         *)
(* The repository holds variants of the same server; four are modelled:    *)
(*   "main2"  src/main2.js          fixed pool, FIFO connection queue      *)
(*   "part0"  src/unnamed/part_000  fixed pool, oldest eviction, retries   *)
(*   "part1"  src/unnamed/part_001  instance pool, /init and /disconnect   *)
(*   "part2"  src/unnamed/part_002  no pool limit, /init and SIGTERM       *)
(* Definitions that end in _m2 model main2.js, those in _p0 part_000,      *)
(* those in _p1 part_001 and those in _p2 part_002.  `variant` is          *)
(* "exited" once the process is gone.                                      *)
(*                                                                         *)
(* Node.js runs one callback at a time; an async function gives up control *)
(* only at an await.  Every action below is the code between two awaits of *)
(* one async function (a "task", kept as a frame in `tasks`), a driver     *)
(* event, or a timer callback.  Consecutive awaits with no code between    *)
(* them that reads or writes shared state are one suspension, and the      *)
(* function that awaited cleanupSession goes on in the step in which       *)
(* cleanupSession returns.                                                 *)
(*                                                                         *)
(* `now` is Date.now() in units of INACTIVITY_TIMEOUT (5 minutes): steps   *)
(* with no Tick between them read the same clock value.  The init timer    *)
(* (45 s / 150 s) may fire at any moment once armed.                       *)
(*                                                                         *)
(* Each specification explores a part of the behaviours: the requests,     *)
(* driver events and timers listed in its next-state relation, for the     *)
(* tenants, Clients and concurrent requests of its `bound`.  A Client      *)
(* handle is used once.                                                    *)
(***************************************************************************)
EXTENDS Integers, Sequences, FiniteSets, Bags, TLC

\* ---- bounds of the model
NumTenants == 3
MaxHandles == 3
MaxRequests == 2
MaxQueue == 2
MaxTime == 2
NumPayloads == 1
LifeTenants == 2
LifeHandles == 1
LifeRequests == 1
FlightTenants == 1
FlightHandles == 2
FlightRequests == 2
RetryTenants == 1
RetryRequests == 1
QueueRequests == 2
IdleTenants == 2
IdleHandles == 3
IdleRequests == 1
DownTenants == 2
DownHandles == 3
AgainTenants == 1
AgainHandles == 2
AgainRequests == 1
PoolTenants == 3
PoolHandles == 3
PoolRequests == 1
DownRequests == 1

\* ---- program constants
MAX_INSTANCES == 2
INACTIVITY_TIMEOUT == 1
MAX_RETRIES == 2

Tenants == 1..NumTenants
Handles == 1..MaxHandles
Payloads == 1..NumPayloads

VARIABLES
    variant,            \* which server file runs, "exited" after the process ended
    bound,              \* the tenants, Clients and requests the run is limited to
    now,                \* Date.now(), in units of INACTIVITY_TIMEOUT
    activeClients,      \* the Map uid -> clientState, in insertion order
    clientState,        \* the clientState objects, by the handle of their client
    driver,             \* the external whatsapp-web.js Client behind each handle
    qrHandler,          \* a 'qr' handler suspended in QRCode.toDataURL: its payload
    sessionDirs,        \* the tenants whose session directory exists on disk
    CONNECTION_QUEUE,   \* main2: the queued {uid, resolve, reject}
    isProcessingQueue,  \* main2: the drain flag
    clientPool,         \* part1: the Map instance -> Set of uids, in insertion order
    tasks,              \* the suspended async functions (a bag of frames)
    resp                \* the HTTP response sent by the last step, if any

vars == <<variant, bound, now, activeClients, clientState, driver, qrHandler, sessionDirs,
          CONNECTION_QUEUE, isProcessingQueue, clientPool, tasks, resp>>

\* the tenants that send requests in this run
Served == 1..bound.tenants

\* ---- the Map activeClients -------------------------------------------

\* activeClients.get(uid): the handle of the stored clientState, 0 for undefined
MapGet(ac, uid) ==
    LET I == {i \in 1..Len(ac) : ac[i].uid = uid}
    IN IF I = {} THEN 0 ELSE ac[CHOOSE i \in I : TRUE].cs

\* activeClients.set as it would be if it added an entry for a key it holds
MapSet_Appends(ac, uid, h) == Append(ac, [uid |-> uid, cs |-> h])

\* activeClients.set(uid, clientState): an existing key keeps its place
MapSet(ac, uid, h) ==
    IF MapGet(ac, uid) # 0
    THEN [i \in 1..Len(ac) |->
            IF ac[i].uid = uid THEN [ac[i] EXCEPT !.cs = h] ELSE ac[i]]
    ELSE Append(ac, [uid |-> uid, cs |-> h])

\* activeClients.delete(uid)
MapDelete(ac, uid) == SelectSeq(ac, LAMBDA e : e.uid # uid)

\* activeClients.size
Size(ac) == Len(ac)

\* the place of uid's entry in the Map's order, 0 when it has none
MapPos(ac, uid) ==
    LET I == {i \in 1..Len(ac) : ac[i].uid = uid}
    IN IF I = {} THEN 0 ELSE CHOOSE i \in I : TRUE

\* ---- objects ----------------------------------------------------------

NoState == [uid |-> 0, status |-> "none", qrCode |-> 0, lastActivity |-> 0,
            promise |-> "none", timer |-> FALSE]

NoDriver == [phase |-> "none"]

\* new Client(...) followed by the clientState literal and the init timer
NewClientState(uid, status, promise, timer) ==
    [uid |-> uid, status |-> status, qrCode |-> 0, lastActivity |-> now,
     promise |-> promise, timer |-> timer]

\* the handle of the next Client constructed, 0 when the bound is reached
NewHandle ==
    LET Free == {h \in 1..bound.handles : driver[h].phase = "none"}
    IN IF Free = {} THEN 0 ELSE CHOOSE h \in Free : \A g \in Free : h <= g

\* a driver handle that was created and is not destroyed
Live(h) == driver[h].phase \notin {"none", "destroyed"}

\* QRCode.toDataURL(qr): the data URL of the payload (0 is null)
toDataURL(qr) == 10 + qr

\* client.destroy() returned or threw
DestroyCall(d, ok) ==
    [d EXCEPT !.phase = IF ok THEN "destroyed" ELSE @]

\* ---- tasks ------------------------------------------------------------

Frame(kind, uid, pc, cs, w) ==
    [kind |-> kind, uid |-> uid, pc |-> pc, cs |-> cs, w |-> w,
     cuid |-> 0, retry |-> 0, cursor |-> 0, t0 |-> 0]

One(f) == SetToBag({f})

Running == BagToSet(tasks)

\* the HTTP requests being served
Requests(b) == {f \in BagToSet(b) : f.kind \in {"init", "send", "disc"}}

RECURSIVE CountIn(_, _)
CountIn(b, S) ==
    IF S = {} THEN 0
    ELSE LET f == CHOOSE x \in S : TRUE IN CopiesIn(f, b) + CountIn(b, S \ {f})

\* at most bound.requests requests are served at a time
Room(b) == CountIn(b, Requests(b)) < bound.requests

\* a Map iterator suspended in a for-of loop keeps its place when an entry
\* before it is deleted: the frames of bag b after the entry at pos is deleted
RECURSIVE MoveIterators(_, _, _)
MoveIterators(b, S, pos) ==
    IF S = {} THEN EmptyBag
    ELSE LET f == CHOOSE x \in S : TRUE
             g == IF pos > 0 /\ f.cursor >= pos THEN [f EXCEPT !.cursor = @ - 1] ELSE f
         IN [x \in {g} |-> CopiesIn(f, b)] (+) MoveIterators(b, S \ {f}, pos)

\* the tasks after activeClients.delete(uid)
Deleted(b, ac, uid) == MoveIterators(b, BagToSet(b), MapPos(ac, uid))

Response(kind, uid, ok, status, qrCode) ==
    [kind |-> kind, uid |-> uid, ok |-> ok, status |-> status, qrCode |-> qrCode]

NoResponse == Response("none", 0, TRUE, "none", 0)

\* the step sends no HTTP response
Quiet == resp' = NoResponse

\* ---- initial state ----------------------------------------------------

InitCommon ==
    /\ now = 0
    /\ activeClients = <<>>
    /\ clientState = [h \in Handles |-> NoState]
    /\ driver = [h \in Handles |-> NoDriver]
    /\ qrHandler = [h \in Handles |-> 0]
    /\ sessionDirs = {}
    /\ CONNECTION_QUEUE = <<>>
    /\ isProcessingQueue = FALSE
    /\ clientPool = <<>>
    /\ tasks = EmptyBag
    /\ resp = NoResponse

\* Date.now() advances
Tick ==
    /\ now < MaxTime
    /\ now' = now + 1
    /\ Quiet /\ UNCHANGED <<variant, bound, clientPool, sessionDirs, activeClients, clientState, driver, qrHandler, CONNECTION_QUEUE, isProcessingQueue, tasks>>

\* ======================================================================
\* main2.js: fixed pool with a FIFO connection queue
\* ======================================================================

\* the frame of processQueue between two iterations of its while loop
DrainLoopFrame == Frame("pq", 0, "loop", 0, "")

\* cleanupSession(uid) returned to the route handler or event handler that
\* called it
AfterCleanup_m2(base, f) ==
    CASE f.kind = "send" ->
            /\ tasks' = base
            /\ resp' = Response("send", f.uid, FALSE, "error", 0)
      [] f.kind = "disc" ->
            /\ tasks' = base
            /\ resp' = Response("disc", f.uid, TRUE, "disconnected", 0)
      [] OTHER ->
            /\ tasks' = base
            /\ Quiet

\* cleanupSession(uid), up to its first await: client.destroy() is called on
\* the clientState found now (preserveSession changes nothing modelled here)
CleanupEnter_m2(base, f, cuid, ac) ==
    LET h == MapGet(ac, cuid)
    IN IF h = 0
       THEN AfterCleanup_m2(base, f)
       ELSE /\ tasks' = base (+) One([f EXCEPT !.pc = "destroy", !.cs = h, !.cuid = cuid])
            /\ Quiet

\* the route handler after `await initializeClient(uid)` gave clientState h
ReturnCaller_m2(base, kind, uid, h, ac) ==
    CASE kind = "init" ->
            /\ tasks' = base
            /\ resp' = Response("init", uid, TRUE, clientState[h].status,
                                clientState[h].qrCode)
      [] kind = "send" ->
            IF clientState[h].status # "ready"
            THEN CleanupEnter_m2(base, Frame("send", uid, "catch", 0, ""), uid, ac)
            ELSE /\ tasks' = base (+) One(Frame("send", uid, "sendMessage", h, ""))
                 /\ Quiet
      [] OTHER ->
            /\ tasks' = base
            /\ Quiet

\* the route handler after `await initializeClient(uid)` threw
ThrowCaller_m2(base, kind, uid, ac) ==
    CASE kind = "init" ->
            /\ tasks' = base
            /\ resp' = Response("init", uid, FALSE, "error", 0)
      [] kind = "send" ->
            CleanupEnter_m2(base, Frame("send", uid, "catch", 0, ""), uid, ac)
      [] OTHER ->
            /\ tasks' = base
            /\ Quiet

\* initializeClient returned h: processQueue resolves the dequeued entry and
\* loops; a route handler goes on
Return_m2(base, kind, uid, h, w, ac) ==
    IF kind = "pq"
    THEN ReturnCaller_m2(base (+) One(DrainLoopFrame), w, uid, h, ac)
    ELSE ReturnCaller_m2(base, kind, uid, h, ac)

\* initializeClient threw: processQueue rejects the dequeued entry and loops
Throw_m2(base, kind, uid, w, ac) ==
    IF kind = "pq"
    THEN ThrowCaller_m2(base (+) One(DrainLoopFrame), w, uid, ac)
    ELSE ThrowCaller_m2(base, kind, uid, ac)

\* initializeClient(uid) up to its first await, called by `kind` with the
\* connection queue q and the Map ac
initializeClient_m2(base, kind, uid, w, q, ac) ==
    LET h == MapGet(ac, uid)
    IN IF h # 0 /\ clientState[h].status = "ready"
       THEN /\ clientState' = [clientState EXCEPT ![h].lastActivity = now]
            /\ CONNECTION_QUEUE' = q
            /\ Return_m2(base, kind, uid, h, w, ac)
       ELSE IF Size(ac) >= MAX_INSTANCES
       THEN /\ Len(q) < MaxQueue
            /\ CONNECTION_QUEUE' = Append(q, [uid |-> uid, waiter |-> kind])
            /\ tasks' = IF kind = "pq"
                        THEN base (+) One(Frame("pq", uid, "awaitQueued", 0, w))
                        ELSE base
            /\ Quiet /\ UNCHANGED clientState
       ELSE /\ (kind # "pq" => Room(base))
            /\ CONNECTION_QUEUE' = q
            /\ tasks' = base (+) One(Frame(kind, uid, "ensureDir", 0, w))
            /\ Quiet /\ UNCHANGED clientState

\* POST /init
PostInit_m2(uid) ==
    /\ variant = "main2"
    /\ LET h == MapGet(activeClients, uid)
       IN IF h # 0 /\ clientState[h].status # "disconnected"
          THEN /\ resp' = Response("init", uid, TRUE, clientState[h].status,
                                   clientState[h].qrCode)
               /\ UNCHANGED <<clientState, CONNECTION_QUEUE, tasks>>
          ELSE initializeClient_m2(tasks, "init", uid, "", CONNECTION_QUEUE, activeClients)
    /\ UNCHANGED <<variant, bound, clientPool, sessionDirs, now, activeClients, driver, qrHandler, isProcessingQueue>>

\* POST /send-message
PostSendMessage_m2(uid) ==
    /\ variant = "main2"
    /\ Room(tasks)
    /\ initializeClient_m2(tasks, "send", uid, "", CONNECTION_QUEUE, activeClients)
    /\ UNCHANGED <<variant, bound, clientPool, sessionDirs, now, activeClients, driver, qrHandler, isProcessingQueue>>

\* POST /disconnect as it would be if the release of a tenant without a record
\* dropped the first record of the Map
PostDisconnect_DropsFirst(uid) ==
    /\ variant = "main2"
    /\ LET h == MapGet(activeClients, uid)
       IN IF h # 0
          THEN /\ Room(tasks)
               /\ tasks' = tasks (+) One(Frame("disc", uid, "routeDestroy", h, ""))
               /\ Quiet /\ UNCHANGED activeClients
          ELSE /\ resp' = Response("disc", uid, TRUE, "disconnected", 0)
               /\ activeClients' = IF Len(activeClients) > 0
                                   THEN Tail(activeClients) ELSE activeClients
               /\ UNCHANGED tasks
    /\ UNCHANGED <<variant, bound, clientPool, sessionDirs, now, clientState, driver, qrHandler,
                   CONNECTION_QUEUE, isProcessingQueue>>

\* POST /disconnect, up to `await clientState.client.destroy()`
PostDisconnect_m2(uid) ==
    /\ variant = "main2"
    /\ LET h == MapGet(activeClients, uid)
       IN IF h # 0
          THEN /\ Room(tasks)
               /\ tasks' = tasks (+) One(Frame("disc", uid, "routeDestroy", h, ""))
               /\ Quiet
          ELSE /\ resp' = Response("disc", uid, TRUE, "disconnected", 0)
               /\ UNCHANGED tasks
    /\ UNCHANGED <<variant, bound, clientPool, sessionDirs, now, activeClients, clientState, driver, qrHandler,
                   CONNECTION_QUEUE, isProcessingQueue>>

\* POST /disconnect: its own destroy() returned (ok) or threw
RouteDestroyDone_m2(f, ok) ==
    /\ variant = "main2"
    /\ f.kind = "disc" /\ f.pc = "routeDestroy"
    /\ driver' = [driver EXCEPT ![f.cs] = DestroyCall(@, ok)]
    /\ IF ok
       THEN CleanupEnter_m2(tasks (-) One(f), f, f.uid, activeClients)
       ELSE /\ tasks' = tasks (-) One(f)
            /\ resp' = Response("disc", f.uid, FALSE, "error", 0)
    /\ UNCHANGED <<variant, bound, clientPool, sessionDirs, now, activeClients, clientState, qrHandler,
                   CONNECTION_QUEUE, isProcessingQueue>>

\* GET /client-status/:uid as it would be if reading a record counted as
\* activity
GetClientStatus_Stamps(uid) ==
    /\ variant = "main2"
    /\ LET h == MapGet(activeClients, uid)
       IN /\ resp' = IF h = 0
                     THEN Response("status", uid, TRUE, "disconnected", 0)
                     ELSE Response("status", uid, TRUE, clientState[h].status,
                                   clientState[h].qrCode)
          /\ clientState' = IF h = 0 THEN clientState
                            ELSE [clientState EXCEPT ![h].lastActivity = now]
    /\ UNCHANGED <<variant, bound, clientPool, sessionDirs, now, activeClients, driver, qrHandler,
                   CONNECTION_QUEUE, isProcessingQueue, tasks>>

\* GET /client-status/:uid
GetClientStatus_m2(uid) ==
    /\ variant = "main2"
    /\ LET h == MapGet(activeClients, uid)
       IN resp' = IF h = 0
                  THEN Response("status", uid, TRUE, "disconnected", 0)
                  ELSE Response("status", uid, TRUE, clientState[h].status,
                                clientState[h].qrCode)
    /\ UNCHANGED <<variant, bound, clientPool, sessionDirs, now, activeClients, clientState, driver, qrHandler,
                   CONNECTION_QUEUE, isProcessingQueue, tasks>>

\* initializeClient after `await fs.ensureDir`: the Client, the clientState,
\* the init timer, activeClients.set and the call of client.initialize()
EnsureDirDone_m2(f) ==
    /\ variant = "main2"
    /\ f.pc = "ensureDir"
    /\ LET h == NewHandle
       IN /\ h # 0
          /\ clientState' = [clientState EXCEPT
                ![h] = NewClientState(f.uid, "initializing", "pending", TRUE)]
          /\ driver' = [driver EXCEPT ![h] = [phase |-> "running"]]
          /\ activeClients' = MapSet(activeClients, f.uid, h)
          /\ tasks' = (tasks (-) One(f)) (+) One([f EXCEPT !.pc = "initialize", !.cs = h])
    /\ sessionDirs' = sessionDirs \cup {f.uid}
    /\ Quiet /\ UNCHANGED <<variant, bound, clientPool, now, qrHandler, CONNECTION_QUEUE, isProcessingQueue>>

\* `await client.initialize()` threw: initializeClient rejects
InitializeFailed_m2(f) ==
    /\ variant = "main2"
    /\ f.pc = "initialize"
    /\ driver[f.cs].phase \in {"failed", "destroyed"}
    /\ Throw_m2(tasks (-) One(f), f.kind, f.uid, f.w, activeClients)
    /\ UNCHANGED <<variant, bound, clientPool, sessionDirs, now, activeClients, clientState, driver, qrHandler,
                   CONNECTION_QUEUE, isProcessingQueue>>

\* client.initialize() returned and clientState.readyPromise is settled
ReadySettled_m2(f) ==
    /\ variant = "main2"
    /\ f.pc = "initialize"
    /\ driver[f.cs].phase # "failed"
    /\ clientState[f.cs].promise # "pending"
    /\ IF clientState[f.cs].promise = "resolved"
       THEN Return_m2(tasks (-) One(f), f.kind, f.uid, f.cs, f.w, activeClients)
       ELSE Throw_m2(tasks (-) One(f), f.kind, f.uid, f.w, activeClients)
    /\ UNCHANGED <<variant, bound, clientPool, sessionDirs, now, activeClients, clientState, driver, qrHandler,
                   CONNECTION_QUEUE, isProcessingQueue>>

\* /send-message: client.sendMessage returned (ok) or threw
SendMessageDone_m2(f, ok) ==
    /\ variant = "main2"
    /\ f.kind = "send" /\ f.pc = "sendMessage"
    /\ ok => driver[f.cs].phase = "ready"
    /\ IF ok
       THEN /\ clientState' = [clientState EXCEPT ![f.cs].lastActivity = now]
            /\ tasks' = tasks (-) One(f)
            /\ resp' = Response("send", f.uid, TRUE, "success", 0)
       ELSE /\ CleanupEnter_m2(tasks (-) One(f), Frame("send", f.uid, "catch", 0, ""),
                               f.uid, activeClients)
            /\ UNCHANGED clientState
    /\ UNCHANGED <<variant, bound, clientPool, sessionDirs, now, activeClients, driver, qrHandler,
                   CONNECTION_QUEUE, isProcessingQueue>>

\* processQueue as it would be if it took the newest entry of the queue
DrainShift_TakesLast(base, ac) ==
    LET n == Len(CONNECTION_QUEUE)
        e == CONNECTION_QUEUE[n]
    IN /\ initializeClient_m2(base, "pq", e.uid, e.waiter,
                              SubSeq(CONNECTION_QUEUE, 1, n - 1), ac)
       /\ isProcessingQueue' = TRUE

\* processQueue: CONNECTION_QUEUE.shift() and initializeClient(uid), up to its
\* first await (lines 60-62), with the Map ac
DrainShift(base, ac) ==
    LET e == Head(CONNECTION_QUEUE)
    IN /\ initializeClient_m2(base, "pq", e.uid, e.waiter, Tail(CONNECTION_QUEUE), ac)
       /\ isProcessingQueue' = TRUE

\* the sweep: the for-of loop over activeClients.entries() (the Map ac) from
\* the iterator's place on, up to the first `await cleanupSession(uid)`
SweepIterate_m2(base, f, ac) ==
    LET I == {i \in 1..Len(ac) :
                /\ i > f.cursor
                /\ f.t0 - clientState[ac[i].cs].lastActivity > INACTIVITY_TIMEOUT}
    IN IF I = {}
       THEN /\ tasks' = base
            /\ Quiet
       ELSE LET i == CHOOSE j \in I : \A k \in I : j <= k
            IN CleanupEnter_m2(base, [f EXCEPT !.cursor = i], ac[i].uid, ac)

\* process.exit(0): no task and no handler is left
Exit ==
    /\ variant' = "exited"
    /\ tasks' = EmptyBag
    /\ Quiet

\* the SIGTERM handler ("term") and the uncaughtException handler ("fault"):
\* the for-of loop over activeClients.entries() (the Map ac) from the
\* iterator's place on, up to `await cleanupSession(uid)`; after the loop the
\* SIGTERM handler calls process.exit(0)
ShutdownIterate_m2(base, f, ac) ==
    IF f.cursor < Len(ac)
    THEN /\ CleanupEnter_m2(base, [f EXCEPT !.cursor = @ + 1], ac[f.cursor + 1].uid, ac)
         /\ UNCHANGED variant
    ELSE IF f.kind = "term"
    THEN Exit
    ELSE /\ tasks' = base
         /\ Quiet /\ UNCHANGED variant

\* cleanupSession after `await clientState.client.destroy()` returned (ok, and
\* the 1 s sleep) or threw (the catch block): activeClients.delete(uid), then
\* the function that awaited cleanupSession goes on to its next await
CleanupDone_m2(f, ok) ==
    /\ variant = "main2"
    /\ f.pc = "destroy"
    /\ driver' = [driver EXCEPT ![f.cs] = DestroyCall(@, ok)]
    /\ activeClients' = MapDelete(activeClients, f.cuid)
    /\ LET ac == MapDelete(activeClients, f.cuid)
           base == Deleted(tasks (-) One(f), activeClients, f.cuid)
           g == [f EXCEPT !.pc = "", !.cs = 0, !.cuid = 0,
                          !.cursor = IF MapPos(activeClients, f.cuid) > 0
                                        /\ @ >= MapPos(activeClients, f.cuid)
                                     THEN @ - 1 ELSE @]
       IN CASE f.kind = "pq" ->
                  /\ DrainShift(base, ac)
                  /\ UNCHANGED variant
            [] f.kind = "sweep" ->
                  /\ SweepIterate_m2(base, g, ac)
                  /\ UNCHANGED <<variant, clientState, CONNECTION_QUEUE, isProcessingQueue>>
            [] f.kind \in {"term", "fault"} ->
                  /\ ShutdownIterate_m2(base, g, ac)
                  /\ UNCHANGED <<clientState, CONNECTION_QUEUE, isProcessingQueue>>
            [] OTHER ->
                  /\ AfterCleanup_m2(base, f)
                  /\ UNCHANGED <<variant, clientState, CONNECTION_QUEUE, isProcessingQueue>>
    /\ UNCHANGED <<bound, clientPool, sessionDirs, now, qrHandler>>

\* ---- main2.js: driver events and the init timer ------------------------

\* client.on('qr'), up to `await QRCode.toDataURL(qr)`
onQr_m2(h, qr) ==
    /\ qrHandler' = [qrHandler EXCEPT ![h] = qr]
    /\ Quiet /\ UNCHANGED <<clientState, tasks, activeClients>>

\* client.on('qr') after the await: qrCode and status are written
QrRendered_m2(h) ==
    /\ clientState' = [clientState EXCEPT ![h].qrCode = toDataURL(qrHandler[h]),
                                          ![h].status = "pending"]
    /\ qrHandler' = [qrHandler EXCEPT ![h] = 0]
    /\ Quiet /\ UNCHANGED <<tasks, activeClients>>

\* client.on('authenticated'); preserveSession changes nothing modelled here
onAuthenticated_m2(h) ==
    /\ clientState' = [clientState EXCEPT ![h].status = "authenticated",
                                          ![h].qrCode = 0]
    /\ Quiet /\ UNCHANGED <<qrHandler, tasks, activeClients>>

\* client.on('ready') as it would be without the lastActivity stamp
onReady_NoStamp(h) ==
    /\ clientState' = [clientState EXCEPT
            ![h].timer = FALSE,
            ![h].status = "ready",
            ![h].promise = IF @ = "pending" THEN "resolved" ELSE @]
    /\ Quiet /\ UNCHANGED <<qrHandler, tasks, activeClients>>

\* client.on('ready'): clearTimeout, status, lastActivity, resolve
onReady_m2(h) ==
    /\ clientState' = [clientState EXCEPT
            ![h].timer = FALSE,
            ![h].status = "ready",
            ![h].lastActivity = now,
            ![h].promise = IF @ = "pending" THEN "resolved" ELSE @]
    /\ Quiet /\ UNCHANGED <<qrHandler, tasks, activeClients>>

\* client.on('disconnected'): status, preserveSession (nothing modelled here),
\* then cleanupSession(uid) up to its first await
onDisconnected_m2(h) ==
    /\ clientState' = [clientState EXCEPT ![h].status = "disconnected"]
    /\ CleanupEnter_m2(tasks, Frame("evt", clientState[h].uid, "", 0, ""),
                       clientState[h].uid, activeClients)
    /\ UNCHANGED <<qrHandler, activeClients>>

\* the initTimeout callback: reject, then cleanupSession(uid) (not awaited)
initTimeout_m2(h) ==
    /\ variant = "main2"
    /\ clientState[h].timer
    /\ clientState' = [clientState EXCEPT
            ![h].timer = FALSE,
            ![h].promise = IF @ = "pending" THEN "rejected" ELSE @]
    /\ CleanupEnter_m2(tasks, Frame("timer", clientState[h].uid, "", 0, ""),
                       clientState[h].uid, activeClients)
    /\ UNCHANGED <<variant, bound, clientPool, sessionDirs, now, activeClients, driver, qrHandler,
                   CONNECTION_QUEUE, isProcessingQueue>>

\* ======================================================================
\* part_000: fixed pool, eviction of the oldest client, retries
\* ======================================================================

\* the frame of initializeClient(uid, retryCount) called by `kind`
Call_p0(kind, uid, retry, pc, cs, cuid, w) ==
    [Frame(kind, uid, pc, cs, w) EXCEPT !.retry = retry, !.cuid = cuid]

\* the scan for the oldest client (lines 103-111), from entry i on
RECURSIVE OldestScan_p0(_, _, _, _)
OldestScan_p0(ac, i, oldestClient, oldestTime) ==
    IF i > Len(ac)
    THEN oldestClient
    ELSE IF clientState[ac[i].cs].lastActivity < oldestTime
         THEN OldestScan_p0(ac, i + 1, ac[i].uid, clientState[ac[i].cs].lastActivity)
         ELSE OldestScan_p0(ac, i + 1, oldestClient, oldestTime)

\* the client the instance limit evicts, 0 when there is none
Evicted_p0(ac) ==
    IF Size(ac) >= MAX_INSTANCES THEN OldestScan_p0(ac, 1, 0, now) ELSE 0

\* initializeClient from the instance limit check (line 101) to its next
\* await: cleanupSession(oldestClient) up to client.destroy(), or fs.pathExists
Capacity_p0(base, f, ac) ==
    LET oldestClient == Evicted_p0(ac)
    IN /\ tasks' = base (+) One(
             IF oldestClient # 0
             THEN [f EXCEPT !.pc = "destroy", !.cs = MapGet(ac, oldestClient),
                            !.cuid = oldestClient, !.w = "pathExists"]
             ELSE [f EXCEPT !.pc = "pathExists", !.cs = 0, !.cuid = 0, !.w = ""])
       /\ Quiet

\* cleanupSession(uid) returned to the function that awaited it (f.w)
AfterCleanup_p0(base, f, ac) ==
    CASE f.w = "capacity" -> Capacity_p0(base, f, ac)
      [] f.w = "pathExists" ->
            /\ tasks' = base (+) One([f EXCEPT !.pc = "pathExists", !.cs = 0,
                                               !.cuid = 0, !.w = ""])
            /\ Quiet
      [] f.w = "catch" ->
            /\ tasks' = base
            /\ resp' = Response("send", f.uid, FALSE, "error", 0)
      [] OTHER ->
            /\ tasks' = base
            /\ Quiet

\* cleanupSession(uid), up to `await clientState.client.destroy()`
CleanupEnter_p0(base, f, cuid, ac) ==
    LET h == MapGet(ac, cuid)
    IN IF h = 0
       THEN AfterCleanup_p0(base, f, ac)
       ELSE /\ tasks' = base (+) One([f EXCEPT !.pc = "destroy", !.cs = h, !.cuid = cuid])
            /\ Quiet

\* the route handler after `await initializeClient(uid)` gave clientState h
ReturnCaller_p0(base, kind, uid, h, ac) ==
    CASE kind = "init" ->
            /\ tasks' = base
            /\ resp' = Response("init", uid, TRUE, clientState[h].status,
                                clientState[h].qrCode)
      [] kind = "send" ->
            IF clientState[h].status # "ready"
            THEN CleanupEnter_p0(base, Frame("send", uid, "", 0, "catch"), uid, ac)
            ELSE /\ tasks' = base (+) One(Frame("send", uid, "sendMessage", h, ""))
                 /\ Quiet

\* the route handler after `await initializeClient(uid)` threw
ThrowCaller_p0(base, kind, uid, ac) ==
    CASE kind = "init" ->
            /\ tasks' = base
            /\ resp' = Response("init", uid, FALSE, "error", 0)
      [] kind = "send" ->
            CleanupEnter_p0(base, Frame("send", uid, "", 0, "catch"), uid, ac)

\* initializeClient(uid, retryCount) up to its first await (lines 86-116)
initializeClient_p0(base, kind, uid, retryCount, ac) ==
    LET existingClient == MapGet(ac, uid)
        f == Call_p0(kind, uid, retryCount, "", 0, 0, "")
    IN IF existingClient # 0 /\ clientState[existingClient].status = "ready"
       THEN ReturnCaller_p0(base, kind, uid, existingClient, ac)
       ELSE IF /\ existingClient # 0
               /\ clientState[existingClient].status \in {"disconnected", "error"}
       THEN CleanupEnter_p0(base, [f EXCEPT !.w = "capacity"], uid, ac)
       ELSE Capacity_p0(base, f, ac)

\* the catch block of initializeClient as it would be if it retried once more
Catch_RetriesAgain(base, f) ==
    LET ac == MapDelete(activeClients, f.uid)
        rest == Deleted(base, activeClients, f.uid)
    IN /\ activeClients' = ac
       /\ IF f.retry <= MAX_RETRIES
          THEN /\ tasks' = rest (+) One([f EXCEPT !.pc = "retryWait", !.cs = 0,
                                                  !.cuid = 0, !.w = ""])
               /\ Quiet
          ELSE ThrowCaller_p0(rest, f.kind, f.uid, ac)

\* the catch block of initializeClient (lines 211-223): the record is deleted,
\* then the 2 s wait before the retry, or the error goes to the caller
Catch_p0(base, f) ==
    LET ac == MapDelete(activeClients, f.uid)
        rest == Deleted(base, activeClients, f.uid)
    IN /\ activeClients' = ac
       /\ IF f.retry < MAX_RETRIES
          THEN /\ tasks' = rest (+) One([f EXCEPT !.pc = "retryWait", !.cs = 0,
                                                  !.cuid = 0, !.w = ""])
               /\ Quiet
          ELSE ThrowCaller_p0(rest, f.kind, f.uid, ac)

\* POST /init
PostInit_p0(uid) ==
    /\ variant = "part0"
    /\ LET h == MapGet(activeClients, uid)
       IN IF h # 0 /\ clientState[h].status # "disconnected"
          THEN /\ resp' = Response("init", uid, TRUE, clientState[h].status,
                                   clientState[h].qrCode)
               /\ UNCHANGED tasks
          ELSE /\ Room(tasks)
               /\ initializeClient_p0(tasks, "init", uid, 0, activeClients)
    /\ UNCHANGED <<variant, bound, clientPool, sessionDirs, now, activeClients, clientState, driver,
                   qrHandler, CONNECTION_QUEUE, isProcessingQueue>>

\* POST /send-message
PostSendMessage_p0(uid) ==
    /\ variant = "part0"
    /\ Room(tasks)
    /\ initializeClient_p0(tasks, "send", uid, 0, activeClients)
    /\ UNCHANGED <<variant, bound, clientPool, sessionDirs, now, activeClients, clientState, driver,
                   qrHandler, CONNECTION_QUEUE, isProcessingQueue>>

\* initializeClient after `await fs.pathExists` and `await fs.ensureDir`: the
\* Client, the clientState, the init timer, activeClients.set and the call of
\* client.initialize() (lines 125-205)
PathExistsDone_p0(f) ==
    /\ variant = "part0"
    /\ f.pc = "pathExists"
    /\ LET h == NewHandle
           sessionExists == f.uid \in sessionDirs
       IN /\ h # 0
          /\ clientState' = [clientState EXCEPT
                ![h] = NewClientState(f.uid,
                          IF sessionExists THEN "resuming" ELSE "initializing",
                          "pending", TRUE)]
          /\ driver' = [driver EXCEPT ![h] = [phase |-> "running"]]
          /\ activeClients' = MapSet(activeClients, f.uid, h)
          /\ tasks' = (tasks (-) One(f)) (+) One([f EXCEPT !.pc = "initialize", !.cs = h])
    /\ sessionDirs' = sessionDirs \cup {f.uid}
    /\ Quiet /\ UNCHANGED <<variant, bound, clientPool, now, qrHandler, CONNECTION_QUEUE, isProcessingQueue>>

\* `await client.initialize()` threw
InitializeFailed_p0(f) ==
    /\ variant = "part0"
    /\ f.pc = "initialize"
    /\ driver[f.cs].phase \in {"failed", "destroyed"}
    /\ Catch_p0(tasks (-) One(f), f)
    /\ UNCHANGED <<variant, bound, clientPool, sessionDirs, now, clientState, driver, qrHandler,
                   CONNECTION_QUEUE, isProcessingQueue>>

\* client.initialize() returned and `await readyPromise` is settled
ReadySettled_p0(f) ==
    /\ variant = "part0"
    /\ f.pc = "initialize"
    /\ driver[f.cs].phase # "failed"
    /\ clientState[f.cs].promise # "pending"
    /\ IF clientState[f.cs].promise = "resolved"
       THEN /\ ReturnCaller_p0(tasks (-) One(f), f.kind, f.uid, f.cs, activeClients)
            /\ UNCHANGED activeClients
       ELSE Catch_p0(tasks (-) One(f), f)
    /\ UNCHANGED <<variant, bound, clientPool, sessionDirs, now, clientState, driver, qrHandler,
                   CONNECTION_QUEUE, isProcessingQueue>>

\* the 2 s wait is over: initializeClient(uid, retryCount + 1)
RetryWaitDone_p0(f) ==
    /\ variant = "part0"
    /\ f.pc = "retryWait"
    /\ initializeClient_p0(tasks (-) One(f), f.kind, f.uid, f.retry + 1, activeClients)
    /\ UNCHANGED <<variant, bound, clientPool, sessionDirs, now, activeClients, clientState, driver,
                   qrHandler, CONNECTION_QUEUE, isProcessingQueue>>

\* /send-message: client.sendMessage returned (ok) or threw
SendMessageDone_p0(f, ok) ==
    /\ variant = "part0"
    /\ f.kind = "send" /\ f.pc = "sendMessage"
    /\ ok => driver[f.cs].phase = "ready"
    /\ IF ok
       THEN /\ clientState' = [clientState EXCEPT ![f.cs].lastActivity = now]
            /\ tasks' = tasks (-) One(f)
            /\ resp' = Response("send", f.uid, TRUE, "success", 0)
       ELSE /\ CleanupEnter_p0(tasks (-) One(f), Frame("send", f.uid, "", 0, "catch"),
                               f.uid, activeClients)
            /\ UNCHANGED clientState
    /\ UNCHANGED <<variant, bound, clientPool, sessionDirs, now, activeClients, driver, qrHandler,
                   CONNECTION_QUEUE, isProcessingQueue>>

\* the sweep: the for-of loop over activeClients.entries() (the Map ac) from
\* the iterator's place on, up to the first `await cleanupSession(uid)`
\* (lines 328-333)
SweepIterate_p0(base, f, ac) ==
    LET I == {i \in 1..Len(ac) :
                /\ i > f.cursor
                /\ f.t0 - clientState[ac[i].cs].lastActivity > INACTIVITY_TIMEOUT}
    IN IF I = {}
       THEN /\ tasks' = base
            /\ Quiet
       ELSE LET i == CHOOSE j \in I : \A k \in I : j <= k
            IN CleanupEnter_p0(base, [f EXCEPT !.cursor = i], ac[i].uid, ac)

\* cleanupSession after `await clientState.client.destroy()` returned (ok) or
\* threw, and the 2 s wait: activeClients.delete(uid), then the function that
\* awaited cleanupSession goes on to its next await
CleanupDone_p0(f, ok) ==
    /\ variant = "part0"
    /\ f.pc = "destroy"
    /\ driver' = [driver EXCEPT ![f.cs] = DestroyCall(@, ok)]
    /\ activeClients' = MapDelete(activeClients, f.cuid)
    /\ LET ac == MapDelete(activeClients, f.cuid)
           base == Deleted(tasks (-) One(f), activeClients, f.cuid)
           g == [f EXCEPT !.pc = "", !.cs = 0, !.cuid = 0,
                          !.cursor = IF MapPos(activeClients, f.cuid) > 0
                                        /\ @ >= MapPos(activeClients, f.cuid)
                                     THEN @ - 1 ELSE @]
       IN IF f.kind = "sweep"
          THEN SweepIterate_p0(base, g, ac)
          ELSE AfterCleanup_p0(base, f, ac)
    /\ UNCHANGED <<variant, bound, clientPool, sessionDirs, now, clientState, qrHandler,
                   CONNECTION_QUEUE, isProcessingQueue>>

\* ---- part_000: driver events and the init timer ------------------------

\* client.on('qr'), up to `await QRCode.toDataURL(qr)`
onQr_p0(h, qr) ==
    /\ qrHandler' = [qrHandler EXCEPT ![h] = qr]
    /\ Quiet /\ UNCHANGED <<clientState, tasks, activeClients>>

\* client.on('qr') after the await
QrRendered_p0(h) ==
    /\ clientState' = [clientState EXCEPT ![h].qrCode = toDataURL(qrHandler[h]),
                                          ![h].status = "pending"]
    /\ qrHandler' = [qrHandler EXCEPT ![h] = 0]
    /\ Quiet /\ UNCHANGED <<tasks, activeClients>>

\* client.on('authenticated')
onAuthenticated_p0(h) ==
    /\ clientState' = [clientState EXCEPT ![h].status = "authenticated",
                                          ![h].qrCode = 0]
    /\ Quiet /\ UNCHANGED <<qrHandler, tasks, activeClients>>

\* client.on('ready') as it would be if readyResolve settled a promise again
onReady_Resettles(h) ==
    /\ clientState' = [clientState EXCEPT
            ![h].status = "ready",
            ![h].lastActivity = now,
            ![h].timer = FALSE,
            ![h].promise = "resolved"]
    /\ Quiet /\ UNCHANGED <<qrHandler, tasks, activeClients>>

\* client.on('ready'): status, lastActivity, clearTimeout, readyResolve
onReady_p0(h) ==
    /\ clientState' = [clientState EXCEPT
            ![h].status = "ready",
            ![h].lastActivity = now,
            ![h].timer = FALSE,
            ![h].promise = IF @ = "pending" THEN "resolved" ELSE @]
    /\ Quiet /\ UNCHANGED <<qrHandler, tasks, activeClients>>

\* client.on('disconnected'): status, clearTimeout, activeClients.delete(uid)
onDisconnected_p0(h) ==
    /\ clientState' = [clientState EXCEPT ![h].status = "disconnected",
                                          ![h].timer = FALSE]
    /\ activeClients' = MapDelete(activeClients, clientState[h].uid)
    /\ tasks' = Deleted(tasks, activeClients, clientState[h].uid)
    /\ Quiet /\ UNCHANGED qrHandler

\* the initTimeout callback: readyReject, then cleanupSession(uid)
initTimeout_p0(h) ==
    /\ variant = "part0"
    /\ clientState[h].timer
    /\ clientState' = [clientState EXCEPT
            ![h].timer = FALSE,
            ![h].promise = IF @ = "pending" THEN "rejected" ELSE @]
    /\ CleanupEnter_p0(tasks, Frame("timer", clientState[h].uid, "", 0, ""),
                       clientState[h].uid, activeClients)
    /\ UNCHANGED <<variant, bound, clientPool, sessionDirs, now, activeClients, driver, qrHandler,
                   CONNECTION_QUEUE, isProcessingQueue>>

\* ---- part_000: the inactivity sweep ------------------------------------

\* the setInterval callback of the sweep starts
Sweep_p0 ==
    /\ variant = "part0"
    /\ \A g \in Running : g.kind # "sweep"
    /\ SweepIterate_p0(tasks, [Frame("sweep", 0, "", 0, "") EXCEPT !.t0 = now], activeClients)
    /\ tasks' # tasks
    /\ UNCHANGED <<variant, bound, clientPool, sessionDirs, now, activeClients, clientState, driver, qrHandler,
                   CONNECTION_QUEUE, isProcessingQueue>>

\* ======================================================================
\* part_002: no pool limit, initializeClient returns after
\* client.initialize()
\* ======================================================================

\* POST /init, up to `await fs.ensureDir` of initializeClient
PostInit_p2(uid) ==
    /\ variant = "part2"
    /\ LET h == MapGet(activeClients, uid)
       IN IF h # 0 /\ clientState[h].status # "disconnected"
          THEN /\ resp' = Response("init", uid, TRUE, clientState[h].status,
                                   clientState[h].qrCode)
               /\ UNCHANGED tasks
          ELSE /\ Room(tasks)
               /\ tasks' = tasks (+) One(Frame("init", uid, "ensureDir", 0, ""))
               /\ Quiet
    /\ UNCHANGED <<variant, bound, clientPool, sessionDirs, now, activeClients, clientState, driver, qrHandler,
                   CONNECTION_QUEUE, isProcessingQueue>>

\* GET /client-status/:uid
GetClientStatus_p2(uid) ==
    /\ variant = "part2"
    /\ LET h == MapGet(activeClients, uid)
       IN resp' = IF h = 0
                  THEN Response("status", uid, TRUE, "not_initialized", 0)
                  ELSE Response("status", uid, TRUE, clientState[h].status,
                                clientState[h].qrCode)
    /\ UNCHANGED <<variant, bound, clientPool, sessionDirs, now, activeClients, clientState, driver, qrHandler,
                   CONNECTION_QUEUE, isProcessingQueue, tasks>>

\* initializeClient after `await fs.ensureDir`: the Client, the clientState,
\* activeClients.set, the handlers and the call of client.initialize()
EnsureDirDone_p2(f) ==
    /\ variant = "part2"
    /\ f.pc = "ensureDir"
    /\ LET h == NewHandle
       IN /\ h # 0
          /\ clientState' = [clientState EXCEPT
                ![h] = NewClientState(f.uid, "initializing", "none", FALSE)]
          /\ driver' = [driver EXCEPT ![h] = [phase |-> "running"]]
          /\ activeClients' = MapSet(activeClients, f.uid, h)
          /\ tasks' = (tasks (-) One(f)) (+) One([f EXCEPT !.pc = "initialize", !.cs = h])
    /\ sessionDirs' = sessionDirs \cup {f.uid}
    /\ Quiet /\ UNCHANGED <<variant, bound, clientPool, now, qrHandler, CONNECTION_QUEUE, isProcessingQueue>>

\* `await client.initialize()` returned, at whatever point of the handshake
\* the driver returns from it: initializeClient returns clientState and the
\* route answers with its status and qrCode
InitializeDone_p2(f) ==
    /\ variant = "part2"
    /\ f.pc = "initialize"
    /\ driver[f.cs].phase \in {"running", "authenticated", "ready"}
    /\ tasks' = tasks (-) One(f)
    /\ resp' = Response("init", f.uid, TRUE, clientState[f.cs].status,
                        clientState[f.cs].qrCode)
    /\ UNCHANGED <<variant, bound, clientPool, sessionDirs, now, activeClients, clientState, driver, qrHandler,
                   CONNECTION_QUEUE, isProcessingQueue>>

\* cleanupSession(uid), up to `await fs.pathExists` / `await fs.remove`
CleanupEnter_p2(base, f, cuid) ==
    /\ tasks' = base (+) One([f EXCEPT !.pc = "remove", !.cuid = cuid])
    /\ Quiet

\* `await client.initialize()` threw: cleanupSession(uid) is called
InitializeFailed_p2(f) ==
    /\ variant = "part2"
    /\ f.pc = "initialize"
    /\ driver[f.cs].phase \in {"failed", "destroyed"}
    /\ CleanupEnter_p2(tasks (-) One(f), f, f.uid)
    /\ UNCHANGED <<variant, bound, clientPool, sessionDirs, now, activeClients, clientState, driver, qrHandler,
                   CONNECTION_QUEUE, isProcessingQueue>>

\* the SIGTERM handler: the for-of loop over activeClients.entries() (the Map
\* ac) from the iterator's place on, up to `await clientState.client.destroy()`;
\* after the loop process.exit(0)
ShutdownIterate_p2(base, f, ac) ==
    IF f.cursor < Len(ac)
    THEN /\ tasks' = base (+) One([f EXCEPT !.cursor = @ + 1, !.pc = "termDestroy",
                                            !.cs = ac[f.cursor + 1].cs,
                                            !.cuid = ac[f.cursor + 1].uid])
         /\ Quiet /\ UNCHANGED variant
    ELSE Exit

\* cleanupSession after its awaits: the session directory is removed and
\* activeClients.delete(uid); then the function that awaited it goes on
CleanupDone_p2(f) ==
    /\ variant = "part2"
    /\ f.pc = "remove"
    /\ sessionDirs' = sessionDirs \ {f.cuid}
    /\ activeClients' = MapDelete(activeClients, f.cuid)
    /\ LET ac == MapDelete(activeClients, f.cuid)
           base == Deleted(tasks (-) One(f), activeClients, f.cuid)
           g == [f EXCEPT !.pc = "", !.cs = 0, !.cuid = 0,
                          !.cursor = IF MapPos(activeClients, f.cuid) > 0
                                        /\ @ >= MapPos(activeClients, f.cuid)
                                     THEN @ - 1 ELSE @]
       IN CASE f.kind = "term" -> ShutdownIterate_p2(base, g, ac)
            [] f.kind = "init" ->
                  /\ tasks' = base
                  /\ resp' = Response("init", f.uid, FALSE, "error", 0)
                  /\ UNCHANGED variant
            [] OTHER ->
                  /\ tasks' = base
                  /\ Quiet /\ UNCHANGED variant
    /\ UNCHANGED <<bound, clientPool, now, clientState, driver, qrHandler, CONNECTION_QUEUE, isProcessingQueue>>

\* process.on('SIGTERM', ...) is called
Sigterm_p2 ==
    /\ variant = "part2"
    /\ \A g \in Running : g.kind # "term"
    /\ ShutdownIterate_p2(tasks, Frame("term", 0, "", 0, ""), activeClients)
    /\ UNCHANGED <<bound, clientPool, sessionDirs, now, activeClients, clientState, driver, qrHandler,
                   CONNECTION_QUEUE, isProcessingQueue>>

\* the SIGTERM handler after `await clientState.client.destroy()` returned
\* (ok): cleanupSession(uid) is called; or threw: nothing catches it, the
\* handler's promise rejects and the loop is over.  The unhandled rejection
\* ends the process (dies) or is only reported, as the runtime is set up.
ShutdownDestroyDone_p2(f, ok, dies) ==
    /\ variant = "part2"
    /\ f.kind = "term" /\ f.pc = "termDestroy"
    /\ driver' = [driver EXCEPT ![f.cs] = DestroyCall(@, ok)]
    /\ IF ok
       THEN /\ ~dies
            /\ CleanupEnter_p2(tasks (-) One(f), f, f.cuid)
            /\ UNCHANGED variant
       ELSE IF dies
       THEN Exit
       ELSE /\ tasks' = tasks (-) One(f)
            /\ Quiet /\ UNCHANGED variant
    /\ UNCHANGED <<bound, clientPool, sessionDirs, now, activeClients, clientState, qrHandler,
                   CONNECTION_QUEUE, isProcessingQueue>>

\* ---- part_002: driver events -------------------------------------------

\* client.on('qr'), up to `await QRCode.toDataURL(qr)`
onQr_p2(h, qr) ==
    /\ qrHandler' = [qrHandler EXCEPT ![h] = qr]
    /\ Quiet /\ UNCHANGED <<clientState, tasks, activeClients>>

\* client.on('qr') after the await
QrRendered_p2(h) ==
    /\ clientState' = [clientState EXCEPT ![h].qrCode = toDataURL(qrHandler[h]),
                                          ![h].status = "pending"]
    /\ qrHandler' = [qrHandler EXCEPT ![h] = 0]
    /\ Quiet /\ UNCHANGED <<tasks, activeClients>>

\* client.on('authenticated')
onAuthenticated_p2(h) ==
    /\ clientState' = [clientState EXCEPT ![h].status = "authenticated",
                                          ![h].qrCode = 0]
    /\ Quiet /\ UNCHANGED <<qrHandler, tasks, activeClients>>

\* client.on('ready')
onReady_p2(h) ==
    /\ clientState' = [clientState EXCEPT ![h].status = "ready",
                                          ![h].lastActivity = now]
    /\ Quiet /\ UNCHANGED <<qrHandler, tasks, activeClients>>

\* client.on('disconnected'): status, then cleanupSession(uid) up to its
\* first await
onDisconnected_p2(h) ==
    /\ clientState' = [clientState EXCEPT ![h].status = "disconnected"]
    /\ CleanupEnter_p2(tasks, Frame("evt", clientState[h].uid, "", 0, ""), clientState[h].uid)
    /\ UNCHANGED <<qrHandler, activeClients>>

\* ======================================================================
\* part_001: a pool of instances shared by the tenants (the routes /init
\* and /disconnect, the init timer, the events authenticated and ready)
\* ======================================================================

\* Infinity, as far as the sizes of the user sets go
Infinity == NumTenants + 1

\* the for-of loop of getClientInstance (lines 74-79), from entry i on; the
\* instances are numbered in the Map's order, 0 is null
RECURSIVE LeastBusy(_, _, _, _)
LeastBusy(pool, i, selectedInstance, minUsers) ==
    IF i > Len(pool)
    THEN selectedInstance
    ELSE IF Cardinality(pool[i]) < minUsers
         THEN LeastBusy(pool, i + 1, i, Cardinality(pool[i]))
         ELSE LeastBusy(pool, i + 1, selectedInstance, minUsers)

\* getClientInstance(): the instance returned and the clientPool it leaves
getClientInstance(pool) ==
    LET selectedInstance == LeastBusy(pool, 1, 0, Infinity)
    IN IF selectedInstance = 0 /\ Len(pool) < MAX_INSTANCES
       THEN [instance |-> Len(pool) + 1, pool |-> Append(pool, {})]
       ELSE [instance |-> selectedInstance, pool |-> pool]

\* cleanupSession lines 99-105: uid leaves the first user set that has it
RemoveUser(pool, uid) ==
    LET I == {i \in 1..Len(pool) : uid \in pool[i]}
    IN IF I = {} THEN pool
       ELSE LET k == CHOOSE i \in I : \A j \in I : i <= j
            IN [pool EXCEPT ![k] = @ \ {uid}]

\* initializeClient(uid, retryCount), up to `await loadSession(uid)`
initializeClient_p1(base, uid, retryCount) ==
    LET h == MapGet(activeClients, uid)
    IN IF h # 0 /\ clientState[h].status = "ready"
       THEN /\ tasks' = base
            /\ resp' = Response("init", uid, TRUE, "ready", clientState[h].qrCode)
       ELSE /\ tasks' = base (+) One([Frame("init", uid, "loadSession", 0, "")
                                        EXCEPT !.retry = retryCount])
            /\ Quiet

\* the catch block of initializeClient (lines 229-240): the record is deleted,
\* then the 2 s wait before the retry, or the error goes to the /init route
Catch_p1(base, f) ==
    /\ activeClients' = MapDelete(activeClients, f.uid)
    /\ IF f.retry < MAX_RETRIES
       THEN /\ tasks' = base (+) One([Frame("init", f.uid, "retryWait", 0, "")
                                        EXCEPT !.retry = f.retry])
            /\ Quiet
       ELSE /\ tasks' = base
            /\ resp' = Response("init", f.uid, FALSE, "error", 0)

\* POST /init
PostInit_p1(uid) ==
    /\ variant = "part1"
    /\ LET h == MapGet(activeClients, uid)
       IN IF h # 0 /\ clientState[h].status # "disconnected"
          THEN /\ resp' = Response("init", uid, TRUE, clientState[h].status,
                                   clientState[h].qrCode)
               /\ UNCHANGED tasks
          ELSE /\ Room(tasks)
               /\ initializeClient_p1(tasks, uid, 0)
    /\ UNCHANGED <<variant, bound, clientPool, sessionDirs, now, activeClients, clientState,
                   driver, qrHandler, CONNECTION_QUEUE, isProcessingQueue>>

\* initializeClient after `await loadSession(uid)`: getClientInstance(), the
\* throw of 'No available client instances' when it returned null, else up to
\* `await fs.ensureDir`.  sessionDirs holds the tenants whose saved session
\* says authenticated.
LoadSessionDone_p1(f) ==
    /\ variant = "part1"
    /\ f.pc = "loadSession"
    /\ LET got == getClientInstance(clientPool)
       IN /\ clientPool' = got.pool
          /\ IF got.instance = 0
             THEN Catch_p1(tasks (-) One(f), f)
             ELSE /\ tasks' = (tasks (-) One(f)) (+)
                        One([f EXCEPT !.pc = "ensureDir", !.cursor = got.instance,
                                      !.w = IF f.uid \in sessionDirs THEN "resuming"
                                                                     ELSE "initializing"])
                  /\ Quiet /\ UNCHANGED activeClients
    /\ UNCHANGED <<variant, bound, sessionDirs, now, clientState, driver, qrHandler,
                   CONNECTION_QUEUE, isProcessingQueue>>

\* initializeClient after `await fs.ensureDir`: the Client, the clientState
\* with its instance, the init timer, activeClients.set and the call of
\* client.initialize() (lines 144-224)
EnsureDirDone_p1(f) ==
    /\ variant = "part1"
    /\ f.pc = "ensureDir"
    /\ LET h == NewHandle
       IN /\ h # 0
          /\ clientState' = [clientState EXCEPT
                ![h] = NewClientState(f.uid, f.w, "pending", TRUE)
                          @@ [instance |-> f.cursor]]
          /\ driver' = [driver EXCEPT ![h] = [phase |-> "running"]]
          /\ activeClients' = MapSet(activeClients, f.uid, h)
          /\ tasks' = (tasks (-) One(f)) (+)
                One([f EXCEPT !.pc = "initialize", !.cs = h, !.cursor = 0, !.w = ""])
    /\ Quiet /\ UNCHANGED <<variant, bound, clientPool, sessionDirs, now, qrHandler,
                            CONNECTION_QUEUE, isProcessingQueue>>

\* `await client.initialize()` threw
InitializeFailed_p1(f) ==
    /\ variant = "part1"
    /\ f.pc = "initialize"
    /\ driver[f.cs].phase \in {"failed", "destroyed"}
    /\ Catch_p1(tasks (-) One(f), f)
    /\ UNCHANGED <<variant, bound, clientPool, sessionDirs, now, clientState, driver, qrHandler,
                   CONNECTION_QUEUE, isProcessingQueue>>

\* client.initialize() returned and `await readyPromise` is settled: the
\* route answers with the clientState, or the rejection is caught
ReadySettled_p1(f) ==
    /\ variant = "part1"
    /\ f.pc = "initialize"
    /\ driver[f.cs].phase \notin {"failed", "destroyed"}
    /\ clientState[f.cs].promise # "pending"
    /\ IF clientState[f.cs].promise = "resolved"
       THEN /\ tasks' = tasks (-) One(f)
            /\ resp' = Response("init", f.uid, TRUE, clientState[f.cs].status,
                                clientState[f.cs].qrCode)
            /\ UNCHANGED activeClients
       ELSE Catch_p1(tasks (-) One(f), f)
    /\ UNCHANGED <<variant, bound, clientPool, sessionDirs, now, clientState, driver, qrHandler,
                   CONNECTION_QUEUE, isProcessingQueue>>

\* the 2 s wait is over: initializeClient(uid, retryCount + 1)
RetryWaitDone_p1(f) ==
    /\ variant = "part1"
    /\ f.pc = "retryWait"
    /\ initializeClient_p1(tasks (-) One(f), f.uid, f.retry + 1)
    /\ UNCHANGED <<variant, bound, clientPool, sessionDirs, now, activeClients, clientState,
                   driver, qrHandler, CONNECTION_QUEUE, isProcessingQueue>>

\* cleanupSession(uid) called by frame f, up to `await saveSession(uid)`
\* (`await fs.writeJson`); without a record it returns at once
CleanupEnter_p1(base, f, cuid) ==
    LET h == MapGet(activeClients, cuid)
    IN IF h = 0
       THEN /\ tasks' = base
            /\ IF f.kind = "disc"
               THEN resp' = Response("disc", f.uid, TRUE, "disconnected", 0)
               ELSE Quiet
       ELSE /\ tasks' = base (+)
                  One([f EXCEPT !.pc = "saveSession", !.cs = h, !.cuid = cuid,
                                !.w = IF clientState[h].status = "ready"
                                      THEN "authenticated" ELSE ""])
            /\ Quiet

\* POST /disconnect
PostDisconnect_p1(uid) ==
    /\ variant = "part1"
    /\ Room(tasks)
    /\ CleanupEnter_p1(tasks, Frame("disc", uid, "", 0, ""), uid)
    /\ UNCHANGED <<variant, bound, clientPool, sessionDirs, now, activeClients, clientState,
                   driver, qrHandler, CONNECTION_QUEUE, isProcessingQueue>>

\* cleanupSession after `await saveSession`: the saved session, the uid
\* leaves the pool, up to `await clientState.client.destroy()`
SaveSessionDone_p1(f) ==
    /\ variant = "part1"
    /\ f.pc = "saveSession"
    /\ sessionDirs' = IF f.w = "authenticated" THEN sessionDirs \cup {f.cuid}
                                                ELSE sessionDirs \ {f.cuid}
    /\ clientPool' = RemoveUser(clientPool, f.cuid)
    /\ tasks' = (tasks (-) One(f)) (+) One([f EXCEPT !.pc = "destroy", !.w = ""])
    /\ Quiet /\ UNCHANGED <<variant, bound, now, activeClients, clientState, driver, qrHandler,
                            CONNECTION_QUEUE, isProcessingQueue>>

\* cleanupSession after `await clientState.client.destroy()` returned (ok) or
\* threw: activeClients.delete(uid); then the function that awaited it goes on
CleanupDone_p1(f, ok) ==
    /\ variant = "part1"
    /\ f.pc = "destroy"
    /\ driver' = [driver EXCEPT ![f.cs] = DestroyCall(@, ok)]
    /\ activeClients' = MapDelete(activeClients, f.cuid)
    /\ tasks' = tasks (-) One(f)
    /\ IF f.kind = "disc"
       THEN resp' = Response("disc", f.uid, TRUE, "disconnected", 0)
       ELSE Quiet
    /\ UNCHANGED <<variant, bound, clientPool, sessionDirs, now, clientState, qrHandler,
                   CONNECTION_QUEUE, isProcessingQueue>>

\* the init timer fires (lines 181-184): readyReject, then cleanupSession(uid)
InitTimeout_p1(h) ==
    /\ variant = "part1"
    /\ clientState[h].timer
    /\ clientState' = [clientState EXCEPT
            ![h].timer = FALSE,
            ![h].promise = IF @ = "pending" THEN "rejected" ELSE @]
    /\ CleanupEnter_p1(tasks, Frame("timer", clientState[h].uid, "", 0, ""),
                       clientState[h].uid)
    /\ UNCHANGED <<variant, bound, clientPool, sessionDirs, now, activeClients, driver,
                   qrHandler, CONNECTION_QUEUE, isProcessingQueue>>

\* ---- part_001: driver events -------------------------------------------

\* client.on('authenticated'); the write of saveSession(uid) is left out
onAuthenticated_p1(h) ==
    /\ clientState' = [clientState EXCEPT ![h].status = "authenticated",
                                          ![h].qrCode = 0]
    /\ Quiet /\ UNCHANGED <<qrHandler, tasks, activeClients, clientPool>>

\* client.on('ready'): the uid joins the user set of its instance
onReady_p1(h) ==
    /\ clientState' = [clientState EXCEPT
            ![h].status = "ready",
            ![h].lastActivity = now,
            ![h].timer = FALSE,
            ![h].promise = IF @ = "pending" THEN "resolved" ELSE @]
    /\ clientPool' = [clientPool EXCEPT ![clientState[h].instance] =
                         @ \cup {clientState[h].uid}]
    /\ Quiet /\ UNCHANGED <<qrHandler, tasks, activeClients>>

\* ---- the driver (whatsapp-web.js Client), the same for every variant ---

EmitQr(h, qr) ==
    /\ driver[h].phase = "running"
    /\ qrHandler[h] = 0
    /\ CASE variant = "main2" -> onQr_m2(h, qr)
         [] variant = "part0" -> onQr_p0(h, qr)
         [] variant = "part2" -> onQr_p2(h, qr)
         [] OTHER -> FALSE
    /\ UNCHANGED <<variant, bound, clientPool, sessionDirs, now, driver, CONNECTION_QUEUE, isProcessingQueue>>

QrRendered(h) ==
    /\ qrHandler[h] # 0
    /\ CASE variant = "main2" -> QrRendered_m2(h)
         [] variant = "part0" -> QrRendered_p0(h)
         [] variant = "part2" -> QrRendered_p2(h)
         [] OTHER -> FALSE
    /\ UNCHANGED <<variant, bound, clientPool, sessionDirs, now, driver, CONNECTION_QUEUE, isProcessingQueue>>

EmitAuthenticated(h) ==
    /\ driver[h].phase = "running"
    /\ driver' = [driver EXCEPT ![h].phase = "authenticated"]
    /\ CASE variant = "main2" -> onAuthenticated_m2(h) /\ UNCHANGED clientPool
         [] variant = "part0" -> onAuthenticated_p0(h) /\ UNCHANGED clientPool
         [] variant = "part2" -> onAuthenticated_p2(h) /\ UNCHANGED clientPool
         [] variant = "part1" -> onAuthenticated_p1(h)
         [] OTHER -> FALSE
    /\ UNCHANGED <<variant, bound, sessionDirs, now, CONNECTION_QUEUE, isProcessingQueue>>

EmitReady(h) ==
    /\ driver[h].phase = "authenticated"
    /\ driver' = [driver EXCEPT ![h].phase = "ready"]
    /\ CASE variant = "main2" -> onReady_m2(h) /\ UNCHANGED clientPool
         [] variant = "part0" -> onReady_p0(h) /\ UNCHANGED clientPool
         [] variant = "part2" -> onReady_p2(h) /\ UNCHANGED clientPool
         [] variant = "part1" -> onReady_p1(h)
         [] OTHER -> FALSE
    /\ UNCHANGED <<variant, bound, sessionDirs, now, CONNECTION_QUEUE, isProcessingQueue>>

EmitDisconnected(h) ==
    /\ driver[h].phase \in {"running", "authenticated", "ready"}
    /\ driver' = [driver EXCEPT ![h].phase = "disconnected"]
    /\ CASE variant = "main2" -> onDisconnected_m2(h) /\ UNCHANGED clientPool
         [] variant = "part0" -> onDisconnected_p0(h) /\ UNCHANGED clientPool
         [] variant = "part2" -> onDisconnected_p2(h) /\ UNCHANGED clientPool
         [] OTHER -> FALSE
    /\ UNCHANGED <<variant, bound, sessionDirs, now, CONNECTION_QUEUE, isProcessingQueue>>

\* client.initialize() fails before the driver emitted anything
InitializeFails(h) ==
    /\ driver[h].phase = "running"
    /\ clientState[h].status \in {"initializing", "resuming"}
    /\ qrHandler[h] = 0
    /\ driver' = [driver EXCEPT ![h].phase = "failed"]
    /\ Quiet /\ UNCHANGED <<variant, bound, clientPool, sessionDirs, now, activeClients, clientState, qrHandler, CONNECTION_QUEUE, isProcessingQueue, tasks>>

\* ---- main2.js: processQueue ------------------------------------------

\* the scan for the oldest ready client (lines 43-51), from entry i on
RECURSIVE OldestScan_m2(_, _, _, _)
OldestScan_m2(ac, i, oldestClient, oldestTime) ==
    IF i > Len(ac)
    THEN [uid |-> oldestClient, time |-> oldestTime]
    ELSE IF /\ clientState[ac[i].cs].lastActivity < oldestTime
            /\ clientState[ac[i].cs].status = "ready"
         THEN OldestScan_m2(ac, i + 1, ac[i].uid, clientState[ac[i].cs].lastActivity)
         ELSE OldestScan_m2(ac, i + 1, oldestClient, oldestTime)

\* the guard of processQueue as it would be without the drain flag
CanStartDrain_NoFlag == Len(CONNECTION_QUEUE) > 0

\* the guard of processQueue (line 33)
CanStartDrain == ~isProcessingQueue /\ Len(CONNECTION_QUEUE) > 0

\* processQueue leaves its loop: finally { isProcessingQueue = false }
DrainExit(base) ==
    /\ tasks' = base
    /\ isProcessingQueue' = FALSE
    /\ Quiet /\ UNCHANGED <<CONNECTION_QUEUE, clientState>>

\* one pass of the while loop of processQueue, up to its first await
DrainIterate(base, f) ==
    IF Len(CONNECTION_QUEUE) = 0
    THEN DrainExit(base)
    ELSE IF Size(activeClients) >= MAX_INSTANCES
    THEN LET o == OldestScan_m2(activeClients, 1, 0, now)
         IN IF o.uid # 0 /\ now - o.time > INACTIVITY_TIMEOUT
            THEN /\ CleanupEnter_m2(base, f, o.uid, activeClients)
                 /\ isProcessingQueue' = TRUE
                 /\ UNCHANGED <<CONNECTION_QUEUE, clientState>>
            ELSE DrainExit(base)
    ELSE DrainShift(base, activeClients)

\* setInterval(processQueue, QUEUE_CHECK_INTERVAL) fires
processQueue ==
    /\ variant = "main2"
    /\ CanStartDrain
    /\ DrainIterate(tasks, DrainLoopFrame)
    /\ UNCHANGED <<variant, bound, clientPool, sessionDirs, now, activeClients, driver, qrHandler>>

\* processQueue goes round its while loop
DrainLoop(f) ==
    /\ variant = "main2"
    /\ f.kind = "pq" /\ f.pc = "loop"
    /\ DrainIterate(tasks (-) One(f), f)
    /\ UNCHANGED <<variant, bound, clientPool, sessionDirs, now, activeClients, driver, qrHandler>>

\* ---- main2.js: the inactivity sweep ----------------------------------

\* the setInterval callback of the sweep starts
Sweep_m2 ==
    /\ variant = "main2"
    /\ \A g \in Running : g.kind # "sweep"
    /\ SweepIterate_m2(tasks, [Frame("sweep", 0, "", 0, "") EXCEPT !.t0 = now], activeClients)
    /\ tasks' # tasks
    /\ UNCHANGED <<variant, bound, clientPool, sessionDirs, now, activeClients, clientState, driver, qrHandler,
                   CONNECTION_QUEUE, isProcessingQueue>>

\* ---- main2.js: shutdown ----------------------------------------------

\* process.on('SIGTERM', ...) is called
Sigterm_m2 ==
    /\ variant = "main2"
    /\ \A g \in Running : g.kind # "term"
    /\ ShutdownIterate_m2(tasks, Frame("term", 0, "", 0, ""), activeClients)
    /\ UNCHANGED <<bound, clientPool, sessionDirs, now, activeClients, clientState, driver, qrHandler,
                   CONNECTION_QUEUE, isProcessingQueue>>

\* process.on('uncaughtException', ...) is called
UncaughtException_m2 ==
    /\ variant = "main2"
    /\ \A g \in Running : g.kind # "fault"
    /\ Len(activeClients) > 0
    /\ ShutdownIterate_m2(tasks, Frame("fault", 0, "", 0, ""), activeClients)
    /\ UNCHANGED <<bound, clientPool, sessionDirs, now, activeClients, clientState, driver, qrHandler,
                   CONNECTION_QUEUE, isProcessingQueue>>

\* ---- main2.js: the specification -------------------------------------

\* the limits of a run
Bound(nt, nh, nr) == [tenants |-> nt, handles |-> nh, requests |-> nr]

InitMain2 ==
    /\ variant = "main2"
    /\ bound = Bound(LifeTenants, LifeHandles, LifeRequests)
    /\ InitCommon

\* the steps of initializeClient, cleanupSession and the handshake events
Core_m2 ==
    \/ \E f \in Running : EnsureDirDone_m2(f)
    \/ \E f \in Running : ReadySettled_m2(f)
    \/ \E h \in Handles : EmitAuthenticated(h)
    \/ \E h \in Handles : EmitReady(h)

\* POST /send-message
Send_m2 ==
    \/ \E uid \in Served : PostSendMessage_m2(uid)
    \/ \E f \in Running, ok \in BOOLEAN : SendMessageDone_m2(f, ok)

\* POST /disconnect
Disconnect_m2 ==
    \/ \E uid \in Served : PostDisconnect_m2(uid)
    \/ \E f \in Running, ok \in BOOLEAN : RouteDestroyDone_m2(f, ok)

\* the scan code
Qr_m2 ==
    \/ \E h \in Handles, qr \in Payloads : EmitQr(h, qr)
    \/ \E h \in Handles : QrRendered(h)

\* client.initialize() fails
Fail_m2 ==
    \/ \E h \in Handles : InitializeFails(h)
    \/ \E f \in Running : InitializeFailed_m2(f)

\* the queue drain
Drain_m2 ==
    \/ processQueue
    \/ \E f \in Running : DrainLoop(f)

\* the clock and the inactivity sweep
Clock_m2 ==
    \/ Tick
    \/ Sweep_m2

\* one or two tenants' whole life on a single Client
NextMain2 ==
    \/ \E uid \in Served : PostInit_m2(uid)
    \/ \E uid \in Served : GetClientStatus_m2(uid)
    \/ Core_m2
    \/ Send_m2
    \/ Disconnect_m2
    \/ Qr_m2
    \/ Fail_m2
    \/ \E f \in Running, ok \in BOOLEAN : CleanupDone_m2(f, ok)
    \/ \E h \in Handles : EmitDisconnected(h)
    \/ \E h \in Handles : initTimeout_m2(h)
    \/ Clock_m2

SpecMain2 == InitMain2 /\ [][NextMain2]_vars

\* ======================================================================
\* Properties of main2.js on one Client
\* ======================================================================

\* the clientState registered for uid, NoState when there is none
Record(uid) ==
    IF MapGet(activeClients, uid) = 0 THEN NoState
    ELSE clientState[MapGet(activeClients, uid)]

\* uid has no record, or one that is not ready
SendNotReady(uid) == Record(uid).status # "ready"

\* C5: release always succeeds.  Every answer of /disconnect is an
\* acknowledgement, and when it is sent the tenant has no record any more,
\* also when the driver's destroy() failed.
C5_ReleaseAlwaysSucceeds ==
    resp.kind = "disc" => resp.ok /\ MapGet(activeClients, resp.uid) = 0

\* a step that answers /disconnect for a tenant that had no record and no
\* /disconnect under way
ReleaseAbsentStep(uid) ==
    /\ resp'.kind = "disc" /\ resp'.uid = uid
    /\ MapGet(activeClients, uid) = 0
    /\ \A f \in Running : ~(f.kind = "disc" /\ f.uid = uid)

\* C6: the release of a tenant without a record succeeds and is a no-op: the
\* registry, the queue, every record, every driver handle and every task are
\* as before, so no destroy() was issued.
C6_ReleaseAbsentNoOp ==
    [][\A uid \in Tenants :
          ReleaseAbsentStep(uid) =>
             /\ resp'.ok
             /\ UNCHANGED <<activeClients, clientState, driver, qrHandler,
                            sessionDirs, CONNECTION_QUEUE, isProcessingQueue,
                            tasks, now>>]_vars

\* tenant 2, which has no record, was released while tenant 1 is ready
C6_Witness ==
    /\ resp = Response("disc", 2, TRUE, "disconnected", 0)
    /\ MapGet(activeClients, 2) = 0
    /\ Record(1).status = "ready"
    /\ tasks = EmptyBag

\* a step taken by a /send-message request of uid
SendStep(uid) ==
    \/ PostSendMessage_m2(uid)
    \/ \E f \in Running :
          /\ f.kind = "send" /\ f.uid = uid
          /\ \/ EnsureDirDone_m2(f)
             \/ ReadySettled_m2(f)
             \/ InitializeFailed_m2(f)
             \/ \E ok \in BOOLEAN : CleanupDone_m2(f, ok)

\* C7: a send for a tenant whose record is absent or not ready mutates
\* nothing: no step of the request creates a record or a driver handle,
\* enqueues, tears down or touches lastActivity.
C7_SendNotReadyMutatesNothing ==
    [][\A uid \in Tenants :
          SendNotReady(uid) /\ SendStep(uid) =>
             UNCHANGED <<activeClients, clientState, driver, sessionDirs,
                         CONNECTION_QUEUE>>]_vars

\* the steps of the handshake of the Client h, seen from the driver
ScanStep(h) == qrHandler[h] # 0 /\ qrHandler'[h] = 0
AuthStep(h) == driver[h].phase = "running" /\ driver'[h].phase = "authenticated"
ReadyStep(h) == driver[h].phase = "authenticated" /\ driver'[h].phase = "ready"

InitRace_m2 ==
    /\ variant = "main2"
    /\ bound = Bound(NumTenants, MaxHandles, MaxRequests)
    /\ InitCommon

\* every tenant, handshakes that succeed, /init
NextRace_m2 ==
    \/ \E uid \in Served : PostInit_m2(uid)
    \/ Core_m2

SpecRace_m2 == InitRace_m2 /\ [][NextRace_m2]_vars

\* the records of the registry whose driver handle is live
LiveRecords == {i \in 1..Len(activeClients) : Live(activeClients[i].cs)}

\* C1: at any time at most MAX_INSTANCES tenants hold a record with a live
\* driver handle, also when two admissions of new tenants pass the capacity
\* check before either has inserted its record.
C1_PoolCapacity == Cardinality(LiveRecords) <= MAX_INSTANCES

InitFlight_m2 ==
    /\ variant = "main2"
    /\ bound = Bound(FlightTenants, FlightHandles, FlightRequests)
    /\ InitCommon

\* one tenant and its requests: /init, /send-message, handshakes that succeed
NextFlight_m2 ==
    \/ \E uid \in Served : PostInit_m2(uid)
    \/ Core_m2
    \/ Send_m2
    \/ \E f \in Running, ok \in BOOLEAN : CleanupDone_m2(f, ok)

SpecFlight_m2 == InitFlight_m2 /\ [][NextFlight_m2]_vars

\* uid has a record that is in progress or ready
Admitted(uid) ==
    Record(uid).status \in {"initializing", "pending", "authenticated", "ready"}

\* the step starts an admission of uid: a new call of initializeClient that
\* goes on to construct a Client
StartsAdmission(uid) ==
    \E f \in BagToSet(tasks') :
        /\ f.uid = uid /\ f.pc = "ensureDir"
        /\ CopiesIn(f, tasks') > CopiesIn(f, tasks)

\* C2: single flight per tenant.  An acquire (from /init or /send-message)
\* for a tenant whose record is in progress or ready starts no second
\* admission, so no second record or driver handle is created for it.
C2_SingleFlight ==
    [][\A uid \in Tenants :
          Admitted(uid) /\ (PostInit_m2(uid) \/ PostSendMessage_m2(uid))
             => ~StartsAdmission(uid)]_vars

\* ======================================================================
\* part_000: an admission whose Client fails to start
\* ======================================================================

InitRetry_p0 ==
    /\ variant = "part0"
    /\ bound = Bound(RetryTenants, MaxHandles, RetryRequests)
    /\ InitCommon

\* one tenant's /init with Clients that fail to start or come up, the
\* retries and the init timers
NextRetry_p0 ==
    \/ \E uid \in Served : PostInit_p0(uid)
    \/ \E f \in Running : PathExistsDone_p0(f)
    \/ \E h \in Handles : InitializeFails(h)
    \/ \E f \in Running : InitializeFailed_p0(f)
    \/ \E f \in Running : RetryWaitDone_p0(f)
    \/ \E h \in Handles : EmitAuthenticated(h)
    \/ \E h \in Handles : EmitReady(h)
    \/ \E f \in Running : ReadySettled_p0(f)
    \/ \E h \in Handles : initTimeout_p0(h)
    \/ \E f \in Running, ok \in BOOLEAN : CleanupDone_p0(f, ok)

SpecRetry_p0 == InitRetry_p0 /\ [][NextRetry_p0]_vars

\* the Clients constructed for uid that were not destroyed
LiveHandlesOf(uid) == {h \in Handles : clientState[h].uid = uid /\ Live(h)}

\* the Clients constructed for uid whose init timer is armed
ArmedTimersOf(uid) == {h \in Handles : clientState[h].uid = uid /\ clientState[h].timer}

\* C9: retry success.  When the acquire returns its ready clientState from
\* the third attempt (retryCount = MAX_RETRIES), the tenant has that one
\* record, three Clients were constructed for it, and the one of the third
\* attempt is its only live driver handle.
C9_RetrySuccess ==
    \A f \in Running :
        (/\ f.pc = "initialize" /\ f.retry = MAX_RETRIES
         /\ clientState[f.cs].promise = "resolved"
         /\ driver[f.cs].phase = "ready")
        => /\ MapGet(activeClients, f.uid) = f.cs
           /\ clientState[f.cs].status = "ready"
           /\ Cardinality({h \in Handles : clientState[h].uid = f.uid}) = MAX_RETRIES + 1
           /\ LiveHandlesOf(f.uid) = {f.cs}

\* C10: retry exhaustion.  When /init answers with the error of an acquire
\* that gave up, the tenant has no record, and no Client constructed for it
\* is live or has its init timer armed.
C10_RetryExhaustion ==
    (resp.kind = "init" /\ ~resp.ok)
        => /\ MapGet(activeClients, resp.uid) = 0
           /\ LiveHandlesOf(resp.uid) = {}
           /\ ArmedTimersOf(resp.uid) = {}

\* ======================================================================
\* part_000: admissions at the instance limit
\* ======================================================================

InitEvict_p0 ==
    /\ variant = "part0"
    /\ bound = Bound(NumTenants, MaxHandles, MaxRequests)
    /\ InitCommon

\* every tenant, /init, handshakes that succeed, the clock
NextEvict_p0 ==
    \/ \E uid \in Served : PostInit_p0(uid)
    \/ \E f \in Running : PathExistsDone_p0(f)
    \/ \E h \in Handles : EmitAuthenticated(h)
    \/ \E h \in Handles : EmitReady(h)
    \/ \E f \in Running : ReadySettled_p0(f)
    \/ \E f \in Running, ok \in BOOLEAN : CleanupDone_p0(f, ok)
    \/ Tick

SpecEvict_p0 == InitEvict_p0 /\ [][NextEvict_p0]_vars

\* a task that tears a record down to free a slot: the instance limit of
\* part_000, the queue drain of main2.js
Evicts(f) == f.pc = "destroy" /\ (f.w = "pathExists" \/ f.kind = "pq")

\* the step starts the task f
Starts(f) == CopiesIn(f, tasks') > CopiesIn(f, tasks)

\* C3: eviction protection.  No admission starts to tear down the record of
\* another tenant that is mid-handshake (initializing, pending or
\* authenticated) in order to free a slot.
C3_EvictionProtection ==
    [][\A f \in BagToSet(tasks') :
          Evicts(f) /\ Starts(f) /\ f.cuid # f.uid
             => clientState[f.cs].status
                   \notin {"initializing", "pending", "authenticated"}]_vars

\* the registry is full of ready records
AllReady ==
    /\ Size(activeClients) = MAX_INSTANCES
    /\ \A i \in 1..Len(activeClients) : clientState[activeClients[i].cs].status = "ready"

\* the tenants whose record has the smallest lastActivity
Oldest ==
    {activeClients[i].uid : i \in {j \in 1..Len(activeClients) :
        \A k \in 1..Len(activeClients) :
            clientState[activeClients[j].cs].lastActivity
               <= clientState[activeClients[k].cs].lastActivity}}

\* C4: with the registry full of ready records, the acquire of a further
\* tenant either starts to tear down the ready record with the smallest
\* lastActivity or puts the tenant in the wait queue.
C4_ThirdAcquire ==
    [][\A uid \in Tenants :
          (AllReady /\ MapGet(activeClients, uid) = 0 /\ PostInit_p0(uid))
             => \/ \E f \in BagToSet(tasks') :
                      Evicts(f) /\ Starts(f) /\ f.uid = uid /\ f.cuid \in Oldest
                \/ \E i \in 1..Len(CONNECTION_QUEUE') : CONNECTION_QUEUE'[i].uid = uid]_vars

\* ======================================================================
\* part_000 on one Client
\* ======================================================================

InitPart0 ==
    /\ variant = "part0"
    /\ bound = Bound(LifeTenants, LifeHandles, LifeRequests)
    /\ InitCommon

\* one or two tenants' whole life on a single Client
NextPart0 ==
    \/ \E uid \in Served : PostInit_p0(uid)
    \/ \E uid \in Served : PostSendMessage_p0(uid)
    \/ \E f \in Running : PathExistsDone_p0(f)
    \/ \E f \in Running : InitializeFailed_p0(f)
    \/ \E f \in Running : RetryWaitDone_p0(f)
    \/ \E f \in Running : ReadySettled_p0(f)
    \/ \E f \in Running, ok \in BOOLEAN : SendMessageDone_p0(f, ok)
    \/ \E f \in Running, ok \in BOOLEAN : CleanupDone_p0(f, ok)
    \/ \E h \in Handles, qr \in Payloads : EmitQr(h, qr)
    \/ \E h \in Handles : QrRendered(h)
    \/ \E h \in Handles : EmitAuthenticated(h)
    \/ \E h \in Handles : EmitReady(h)
    \/ \E h \in Handles : EmitDisconnected(h)
    \/ \E h \in Handles : InitializeFails(h)
    \/ \E h \in Handles : initTimeout_p0(h)
    \/ Tick

SpecPart0 == InitPart0 /\ [][NextPart0]_vars

\* ======================================================================
\* main2.js: the connection queue
\* ======================================================================

InitQueue_m2 ==
    /\ variant = "main2"
    /\ bound = Bound(NumTenants, MaxHandles, QueueRequests)
    /\ InitCommon

\* every tenant, /init, handshakes that succeed, the queue drain, the clock
\* and the inactivity sweep
NextQueue_m2 ==
    \/ \E uid \in Served : PostInit_m2(uid)
    \/ Core_m2
    \/ Drain_m2
    \/ Sweep_m2
    \/ \E f \in Running, ok \in BOOLEAN : CleanupDone_m2(f, ok)
    \/ Tick

SpecQueue_m2 == InitQueue_m2 /\ [][NextQueue_m2]_vars

\* ======================================================================
\* part_000: idle sessions
\* ======================================================================

InitIdle_p0 ==
    /\ variant = "part0"
    /\ bound = Bound(IdleTenants, IdleHandles, IdleRequests)
    /\ InitCommon

\* /init one at a time, handshakes that succeed, the clock and the sweep
NextIdle_p0 ==
    \/ \E uid \in Served : PostInit_p0(uid)
    \/ \E f \in Running : PathExistsDone_p0(f)
    \/ \E h \in Handles : EmitAuthenticated(h)
    \/ \E h \in Handles : EmitReady(h)
    \/ \E f \in Running : ReadySettled_p0(f)
    \/ Tick
    \/ Sweep_p0
    \/ \E f \in Running, ok \in BOOLEAN : CleanupDone_p0(f, ok)

SpecIdle_p0 == InitIdle_p0 /\ [][NextIdle_p0]_vars

\* the tenants whose record is ready and idle at the time t0 of a sweep
IdleReady(t0) ==
    {activeClients[i].uid : i \in {j \in 1..Len(activeClients) :
        /\ clientState[activeClients[j].cs].status = "ready"
        /\ t0 - clientState[activeClients[j].cs].lastActivity > INACTIVITY_TIMEOUT}}

\* the sweep f has gone through the whole Map
SweepEnds(f) ==
    /\ f.kind = "sweep"
    /\ \E ok \in BOOLEAN : CleanupDone_p0(f, ok)
    /\ \A g \in BagToSet(tasks') : g.kind # "sweep"

\* a sweep leaves no record that is ready and idle; each teardown of the sweep
\* removes the record, and destroys the Client when destroy() returns
SweepTearsDown ==
    /\ \A f \in Running : SweepEnds(f) => IdleReady(f.t0)' = {}
    /\ \A f \in Running, ok \in BOOLEAN :
          (f.kind = "sweep" /\ CleanupDone_p0(f, ok))
             => /\ MapGet(activeClients', f.cuid) = 0
                /\ ok => ~Live(f.cs)'

\* a record made by an acquire starts in 'initializing'
RestartsInitializing ==
    \A f \in Running :
        PathExistsDone_p0(f) => Record(f.uid)'.status = "initializing"

\* C11: inactivity.  A ready record that is idle for more than
\* INACTIVITY_TIMEOUT is torn down by the sweep (Client destroyed, record
\* removed), and the record that a later acquire makes for the tenant starts
\* in 'initializing'.
C11_Inactivity == [][SweepTearsDown /\ RestartsInitializing]_vars

\* ======================================================================
\* part_000: the driver disconnects
\* ======================================================================

\* the teardown of the record of Client h is under way or done
TearingDown(h) ==
    \/ MapGet(activeClients, clientState[h].uid) # h
    \/ \E f \in Running : f.pc = "destroy" /\ f.cs = h

\* an acquire waits on a promise that nothing can settle any more: the driver
\* is gone and the init timer is cleared
WaitsForever(f) ==
    /\ f.pc = "initialize"
    /\ driver[f.cs].phase = "disconnected"
    /\ clientState[f.cs].promise = "pending"
    /\ ~clientState[f.cs].timer

\* C12: when the driver emits 'disconnected' while readyPromise is pending,
\* the promise is rejected and the record is torn down, so that no acquire
\* waits for ever on the promise.
C12_DisconnectRejects ==
    /\ [](\A f \in Running : ~WaitsForever(f))
    /\ [][\A h \in Handles :
          (EmitDisconnected(h) /\ clientState[h].promise = "pending")
             => /\ clientState'[h].promise = "rejected"
                /\ TearingDown(h)']_vars

\* ======================================================================
\* main2.js: the init timer
\* ======================================================================

\* once the Client h is ready its init timer is cleared and stays so
TimerSpares(h) ==
    /\ ReadyStep(h) => ~clientState'[h].timer
    /\ (clientState[h].uid # 0 /\ ~clientState[h].timer) => ~clientState'[h].timer

\* C13: the initialization deadline.  When the init timer of a record that
\* is not ready fires, the record's status becomes 'error', its promise is
\* rejected and its teardown starts; the timer of a record that became ready
\* never fires.
C13_InitDeadline ==
    [][\A h \in Handles :
          /\ initTimeout_m2(h) =>
                /\ clientState'[h].status = "error"
                /\ clientState'[h].promise = "rejected"
                /\ TearingDown(h)'
          /\ TimerSpares(h)]_vars

\* ======================================================================
\* part_000: readyPromise
\* ======================================================================

C15_ScanPayloadOnlyPending ==
    \A i \in 1..Len(activeClients) :
        clientState[activeClients[i].cs].qrCode # 0
            => clientState[activeClients[i].cs].status = "pending"

\* ======================================================================
\* main2.js: the registry
\* ======================================================================

Grants == Len(CONNECTION_QUEUE') < Len(CONNECTION_QUEUE)

\* the step starts the admission of the queue entry e, or hands it the
\* ready record its tenant has
AdmissionStarts(e) ==
    \/ \E f \in BagToSet(tasks') :
          /\ f.kind = "pq" /\ f.pc = "ensureDir"
          /\ f.uid = e.uid /\ f.w = e.waiter
          /\ Starts(f)
    \/ /\ MapGet(activeClients', e.uid) # 0
       /\ clientState'[MapGet(activeClients', e.uid)].status = "ready"
       /\ clientState'[MapGet(activeClients', e.uid)].lastActivity = now
       /\ DrainLoopFrame \in BagToSet(tasks')

\* the entries of queue q that were dequeued before, found the pool full and
\* wait once more: they arrived before every other entry of q
Requeued(q) == {i \in 1..Len(q) : q[i].waiter = "pq"}

\* C17: wait-queue grants are FIFO by arrival.  A step that grants a queued
\* request grants the one at the head of the queue, leaves the others in their
\* order, and no request that arrived earlier and waits once more after it
\* found the pool full again is left behind it: a request enqueued later is
\* never admitted before one enqueued earlier.
C17_FifoGrants ==
    [][Grants =>
          /\ CONNECTION_QUEUE' = Tail(CONNECTION_QUEUE)
          /\ AdmissionStarts(Head(CONNECTION_QUEUE))
          /\ Requeued(CONNECTION_QUEUE) \subseteq {1}]_vars

\* a dequeued request found the pool full again and waits once more behind a
\* request that arrived after it
C17_Witness ==
    /\ \E f \in Running : f.pc = "awaitQueued"
    /\ Len(CONNECTION_QUEUE) = 2
    /\ Requeued(CONNECTION_QUEUE) = {2}

\* the drain waits for a queue entry of its own: processQueue awaits the
\* promise initializeClient returned for a request it dequeued and put back
\* into the queue (lines 137-142).  Only processQueue settles queue entries
\* (lines 62-66) and it returns at once while isProcessingQueue (line 33).
DrainBlocked == \E f \in Running : f.kind = "pq" /\ f.pc = "awaitQueued"

\* C18: every request placed in the wait queue is eventually dequeued and
\* settled once a slot is free.  The drain is the only task that settles
\* queued requests, so with a slot free it must not be waiting for a queued
\* request itself: from such a state on no entry leaves the queue any more.
C18_QueuedSettled == ~(DrainBlocked /\ Size(activeClients) < MAX_INSTANCES)

\* ======================================================================
\* Shutdown
\* ======================================================================

InitShutdown_m2 ==
    /\ variant = "main2"
    /\ bound = Bound(DownTenants, DownHandles, DownRequests)
    /\ InitCommon

\* main2.js: /init, handshakes that succeed, SIGTERM and uncaught exceptions
NextShutdown_m2 ==
    \/ \E uid \in Served : PostInit_m2(uid)
    \/ Core_m2
    \/ \E f \in Running, ok \in BOOLEAN : CleanupDone_m2(f, ok)
    \/ Sigterm_m2
    \/ UncaughtException_m2

SpecShutdown_m2 == InitShutdown_m2 /\ [][NextShutdown_m2]_vars

InitShutdown_p2 ==
    /\ variant = "part2"
    /\ bound = Bound(DownTenants, DownHandles, DownRequests)
    /\ InitCommon

\* part_002: /init, handshakes that succeed, SIGTERM
NextShutdown_p2 ==
    \/ \E uid \in Served : PostInit_p2(uid)
    \/ \E f \in Running : EnsureDirDone_p2(f)
    \/ \E f \in Running : InitializeDone_p2(f)
    \/ \E f \in Running : InitializeFailed_p2(f)
    \/ \E f \in Running : CleanupDone_p2(f)
    \/ \E h \in Handles : EmitAuthenticated(h)
    \/ \E h \in Handles : EmitReady(h)
    \/ Sigterm_p2
    \/ \E f \in Running, ok \in BOOLEAN, dies \in BOOLEAN : ShutdownDestroyDone_p2(f, ok, dies)

SpecShutdown_p2 == InitShutdown_p2 /\ [][NextShutdown_p2]_vars

\* the process has exited
Exited == variant = "exited"

\* the step ends the drain of the shutdown handler f while the process lives
DrainOver(f) ==
    /\ f.kind \in {"term", "fault"}
    /\ \A g \in BagToSet(tasks') : g.kind # f.kind
    /\ ~Exited'

\* the step leaves no record in the registry that the iterator of the
\* shutdown handler f has not reached: teardown was attempted for all of them
AllAttempted(f) ==
    \A i \in 1..Len(activeClients) :
        i > f.cursor => MapGet(activeClients', activeClients[i].uid) = 0

\* C19: shutdown drain.  The drain of a SIGTERM or uncaughtException handler
\* is over only when the teardown of every record of the registry was
\* attempted, whether the destroy() of a record returned or threw, and the
\* process exits only then.
C19_ShutdownDrain ==
    [][/\ \A f \in Running : DrainOver(f) => AllAttempted(f)
       /\ (Exited' /\ ~Exited) =>
             \/ activeClients = <<>>
             \/ \E f \in Running : f.kind = "term" /\ AllAttempted(f)]_vars

\* ======================================================================
\* The acquire as an observation
\* ======================================================================

InitPart2 ==
    /\ variant = "part2"
    /\ bound = Bound(LifeTenants, LifeHandles, LifeRequests)
    /\ InitCommon

\* part_002: one or two tenants' /init on a single Client, the handshake,
\* Clients that fail to start, disconnects
NextPart2 ==
    \/ \E uid \in Served : PostInit_p2(uid)
    \/ \E uid \in Served : GetClientStatus_p2(uid)
    \/ \E f \in Running : EnsureDirDone_p2(f)
    \/ \E f \in Running : InitializeDone_p2(f)
    \/ \E f \in Running : InitializeFailed_p2(f)
    \/ \E f \in Running : CleanupDone_p2(f)
    \/ \E h \in Handles : InitializeFails(h)
    \/ \E h \in Handles, qr \in Payloads : EmitQr(h, qr)
    \/ \E h \in Handles : QrRendered(h)
    \/ \E h \in Handles : EmitAuthenticated(h)
    \/ \E h \in Handles : EmitReady(h)
    \/ \E h \in Handles : EmitDisconnected(h)
    \/ Tick

SpecPart2 == InitPart2 /\ [][NextPart2]_vars

\* the /init request f started a session, its Client is up and the record is
\* still initializing or awaiting the scan
AcquireInProgress(f) ==
    /\ f.kind = "init" /\ f.pc = "initialize"
    /\ driver[f.cs].phase = "running"
    /\ clientState[f.cs].status \in {"initializing", "pending"}

\* the route handler of f goes on after `await initializeClient(uid)` and
\* answers
AcquireAnswers(f) == ReadySettled_m2(f) \/ InitializeDone_p2(f)

\* C20: the acquire is a non-blocking observation.  A /init request that
\* started a session can be answered while the record is still initializing
\* or awaiting the scan: its answer does not wait for the record to be ready.
C20_NonBlocking ==
    \A f \in Running : AcquireInProgress(f) => ENABLED AcquireAnswers(f)

\* ======================================================================
\* The status read
\* ======================================================================

\* the step is GET /client-status/:uid
StatusStep(uid) == GetClientStatus_m2(uid) \/ GetClientStatus_p2(uid)

\* C21: getStatus is a pure read.  GET /client-status/:uid changes no record
\* (its lastActivity included), no registry entry, no queue entry, no Client
\* and no task; for a tenant without a record it answers with the
\* disconnected / not_initialized shape.
C21_StatusPureRead ==
    [][\A uid \in Tenants : StatusStep(uid) =>
          /\ UNCHANGED <<activeClients, clientState, CONNECTION_QUEUE, isProcessingQueue,
                         driver, qrHandler, sessionDirs, tasks>>
          /\ resp'.kind = "status" /\ resp'.uid = uid
          /\ MapGet(activeClients, uid) = 0 =>
                /\ resp'.status \in {"disconnected", "not_initialized"}
                /\ resp'.qrCode = 0
          /\ MapGet(activeClients, uid) # 0 =>
                /\ resp'.status = Record(uid).status
                /\ resp'.qrCode = Record(uid).qrCode]_vars

\* a status read of a tenant without a record while another tenant has one
\* that waits for its scan
C21_Witness ==
    /\ resp.kind = "status"
    /\ MapGet(activeClients, resp.uid) = 0
    /\ resp.status = "disconnected"
    /\ \E i \in 1..Len(activeClients) :
          clientState[activeClients[i].cs].status = "pending"

\* ======================================================================
\* The instance pool of part_001
\* ======================================================================

InitPool_p1 ==
    /\ variant = "part1"
    /\ bound = Bound(PoolTenants, PoolHandles, PoolRequests)
    /\ InitCommon

\* part_001: /init and /disconnect of three tenants, one request at a time,
\* the handshake up to ready, Clients that fail to start, the init timer
NextPool_p1 ==
    \/ \E uid \in Served : PostInit_p1(uid)
    \/ \E uid \in Served : PostDisconnect_p1(uid)
    \/ \E f \in Running : LoadSessionDone_p1(f)
    \/ \E f \in Running : EnsureDirDone_p1(f)
    \/ \E f \in Running : InitializeFailed_p1(f)
    \/ \E f \in Running : ReadySettled_p1(f)
    \/ \E f \in Running : RetryWaitDone_p1(f)
    \/ \E f \in Running : SaveSessionDone_p1(f)
    \/ \E f \in Running, ok \in BOOLEAN : CleanupDone_p1(f, ok)
    \/ \E h \in Handles : InitTimeout_p1(h)
    \/ \E h \in Handles : InitializeFails(h)
    \/ \E h \in Handles : EmitAuthenticated(h)
    \/ \E h \in Handles : EmitReady(h)

SpecPool_p1 == InitPool_p1 /\ [][NextPool_p1]_vars

\* the tenants the pool serves: those in a user set of clientPool
PoolUsers == UNION {clientPool[i] : i \in 1..Len(clientPool)}

\* C22: part_001 never admits a tenant beyond capacity: when the pool
\* already serves MAX_INSTANCES tenants, getClientInstance gives the acquire
\* of a further tenant no instance, so that no record is made for it and the
\* registry never holds more than MAX_INSTANCES records.
C22_RejectOnFull ==
    /\ Size(activeClients) <= MAX_INSTANCES
    /\ \A f \in Running :
          f.pc = "ensureDir" => Cardinality(PoolUsers \ {f.uid}) < MAX_INSTANCES

\* ======================================================================
\* The destruction of Clients
\* ======================================================================

\* the destroy() calls on Client h that have not returned yet
DestroyCalls(h) ==
    CountIn(tasks, {f \in Running :
                       f.cs = h /\ f.pc \in {"destroy", "routeDestroy", "termDestroy"}})

\* the clientState of Client h is in the Map ac
Registered(ac, h) == \E i \in 1..Len(ac) : ac[i].cs = h

\* destroy() was called on h no more than once, counting the calls in
\* progress and the one that destroyed it
DestroyedAtMostOnce(h) ==
    DestroyCalls(h) + (IF driver[h].phase = "destroyed" THEN 1 ELSE 0) <= 1

\* C23: every Client created is destroyed exactly once: destroy() is never
\* called a second time on a Client (a call in progress or done counts), and
\* a record leaves the registry only with a destroy() call made on its Client.
C23_DestroyedOnce ==
    /\ [](\A h \in Handles : DestroyedAtMostOnce(h))
    /\ [][\A h \in Handles :
             Registered(activeClients, h) /\ ~Registered(activeClients', h)
                => DestroyCalls(h) > 0 \/ driver[h].phase = "destroyed"]_vars

\* ======================================================================
\* The inactivity sweep and the status of the records
\* ======================================================================

\* the sweeps that call cleanupSession in this step, with the record in cs
SweepTeardowns ==
    {g \in BagToSet(tasks') : g.kind = "sweep" /\ g.pc = "destroy" /\ g \notin Running}

\* C24: the inactivity sweep tears down only records that are 'ready': a
\* record in 'initializing', 'pending' or 'authenticated' is never torn down
\* by the sweep, whatever its lastActivity.
C24_SweepOnlyReady ==
    [][\A g \in SweepTeardowns : clientState[g.cs].status = "ready"]_vars

\* ======================================================================
\* A new admission after a disconnect
\* ======================================================================

InitAgain_m2 ==
    /\ variant = "main2"
    /\ bound = Bound(AgainTenants, AgainHandles, AgainRequests)
    /\ InitCommon

\* main2.js: one tenant's /init, one at a time, handshakes that succeed,
\* disconnects of the driver and the teardowns they start
NextAgain_m2 ==
    \/ \E uid \in Served : PostInit_m2(uid)
    \/ Core_m2
    \/ \E h \in Handles : EmitDisconnected(h)
    \/ \E f \in Running, ok \in BOOLEAN : CleanupDone_m2(f, ok)

SpecAgain_m2 == InitAgain_m2 /\ [][NextAgain_m2]_vars

\* this step stores a new clientState for uid
NewRecord(uid) == MapGet(activeClients', uid) \notin {0, MapGet(activeClients, uid)}

\* Client h is that of a record in 'disconnected' or 'error'
Finished(h) == clientState[h].status \in {"disconnected", "error"}

\* a record of uid in 'disconnected' or 'error' is still in the registry,
\* or the teardown of one is in progress
OldRecord(uid) ==
    \/ MapGet(activeClients, uid) # 0 /\ Finished(MapGet(activeClients, uid))
    \/ \E f \in Running : f.pc = "destroy" /\ f.cuid = uid /\ Finished(f.cs)

\* C25: a record in 'disconnected' or 'error' has left the registry before a
\* new admission for its tenant makes a record: no new record is stored while
\* the old one is in the registry or its teardown is in progress, and a
\* record is removed only by a teardown of its own Client.
C25_OldGoneFirst ==
    [][/\ \A uid \in Tenants : NewRecord(uid) => ~OldRecord(uid)
       /\ \A h \in Handles :
             Registered(activeClients, h) /\ ~Registered(activeClients', h)
                /\ MapGet(activeClients', clientState[h].uid) = 0
                => \E f \in Running : f.pc = "destroy" /\ f.cs = h]_vars

\* ======================================================================
\* The drain flag of main2.js
\* ======================================================================

\* the processQueue calls that have not returned
DrainPasses == {f \in Running : f.kind = "pq"}

\* C26: the queue drain is single-flight: there are never two passes of
\* processQueue between entry and exit, and isProcessingQueue is set as long
\* as a pass is, also when the interval fires while a pass is suspended.
C26_SingleDrain ==
    /\ CountIn(tasks, DrainPasses) <= 1
    /\ DrainPasses # {} => isProcessingQueue

\* a pass is suspended in an await with a request in the queue: the next
\* call of processQueue returns at once
C26_Witness ==
    /\ \E f \in DrainPasses : f.pc \in {"destroy", "ensureDir", "initialize"}
    /\ Len(CONNECTION_QUEUE) > 0
    /\ isProcessingQueue

\* C27: a drain pass never tears down a session to serve a queued request:
\* processQueue never calls cleanupSession, and it takes a request from the
\* queue only when the pool has a free slot.
C27_DrainNoTeardown ==
    [][/\ \A g \in BagToSet(tasks') : g.kind = "pq" /\ g.pc = "destroy" => g \in Running
       /\ Grants => Size(activeClients) < MAX_INSTANCES]_vars

\* ======================================================================
\* The choice of the record to evict
\* ======================================================================

\* the places of the ready records in the Map
ReadyAt ==
    {i \in 1..Len(activeClients) : clientState[activeClients[i].cs].status = "ready"}

\* the ready record with the smallest lastActivity, the earliest created of
\* them when several have it
Candidate ==
    LET M == {i \in ReadyAt : \A k \in ReadyAt :
                 clientState[activeClients[i].cs].lastActivity
                    <= clientState[activeClients[k].cs].lastActivity}
    IN activeClients[CHOOSE i \in M : \A j \in M : i <= j].uid

\* C28: the choice of the record to evict is deterministic.  When the pool is
\* full and holds a ready record, the admission of a further tenant picks the
\* ready record with the smallest lastActivity, the earliest created on a
\* tie; one is found whenever a ready record exists, also when its
\* lastActivity equals the current time.
C28_CandidateSelection ==
    [][\A uid \in Tenants :
          (/\ Size(activeClients) >= MAX_INSTANCES
           /\ ReadyAt # {}
           /\ MapGet(activeClients, uid) = 0
           /\ PostInit_p0(uid))
             => \E f \in BagToSet(tasks') :
                   Evicts(f) /\ Starts(f) /\ f.uid = uid /\ f.cuid = Candidate]_vars

\* ======================================================================
\* The order of destroy() and the removal of the record
\* ======================================================================

\* the step ends a destroy() call on Client h: it returned or it threw
DestroyAwaited(h) ==
    \E f \in Running : /\ f.pc \in {"destroy", "routeDestroy", "termDestroy"}
                       /\ f.cs = h
                       /\ CopiesIn(f, tasks') < CopiesIn(f, tasks)

\* C29: a slot becomes free only after the teardown has completed: a record
\* leaves the registry only in a step that ends the awaited destroy() of its
\* Client, or after it, so that no live Client is without a record.
C29_FreeAfterTeardown ==
    /\ [](\A h \in Handles : Live(h) => Registered(activeClients, h))
    /\ [][\A h \in Handles :
             Registered(activeClients, h) /\ ~Registered(activeClients', h)
                => DestroyAwaited(h) \/ driver[h].phase = "destroyed"]_vars

\* ======================================================================
\* What starts a retry
\* ======================================================================

\* the calls of initializeClient that begin the wait before a retry in this
\* step
RetryStarts == {g \in BagToSet(tasks') : g.pc = "retryWait" /\ Starts(g)}

\* C30: only a failure of the creation of the Client or of its
\* client.initialize() call starts a retry: an init timeout or a disconnect
\* of the driver never leads to a new attempt by itself.
C30_RetryOnlyOnStartFailure ==
    [][\A g \in RetryStarts :
          \E f \in Running : /\ f.pc = "initialize"
                             /\ f.uid = g.uid
                             /\ driver[f.cs].phase = "failed"]_vars

\* ======================================================================
\* The reuse of a ready record
\* ======================================================================

\* a request calls initializeClient(uid) whatever the record of uid is
CallsInitialize(uid) == PostSendMessage_m2(uid) \/ PostSendMessage_p0(uid)

\* C31: reuse.  initializeClient for a tenant whose record is 'ready' returns
\* that record: the registry and the Clients are as before, no other record
\* changes, and the record's lastActivity becomes the current time.
C31_Reuse ==
    [][\A uid \in Tenants :
          LET h == MapGet(activeClients, uid)
          IN (h # 0 /\ clientState[h].status = "ready" /\ CallsInitialize(uid))
                => /\ activeClients' = activeClients
                   /\ driver' = driver
                   /\ \A g \in Handles \ {h} : clientState'[g] = clientState[g]
                   /\ clientState'[h] = [clientState[h] EXCEPT !.lastActivity = now]
                   /\ \E f \in BagToSet(tasks') : Starts(f) /\ f.kind = "send" /\ f.cs = h]_vars

\* ======================================================================
\* The lifecycle of a record
\* ======================================================================

\* the place of a status in the lifecycle
Stage(status) ==
    CASE status \in {"initializing", "resuming"} -> 1
      [] status = "pending" -> 2
      [] status = "authenticated" -> 3
      [] status = "ready" -> 4
      [] OTHER -> 0

\* C32: the status of a record only moves forward along initializing,
\* pending, authenticated, ready, or to 'disconnected' or 'error': it never
\* goes from 'authenticated' or 'ready' back to 'pending', and once it is
\* 'disconnected' or 'error' no event and no late handler changes it.
C32_Lifecycle ==
    [][\A h \in Handles :
          /\ clientState[h].status \in {"disconnected", "error"}
                => clientState'[h].status = clientState[h].status
          /\ Stage(clientState[h].status) > 0
                => \/ clientState'[h].status \in {"disconnected", "error"}
                   \/ Stage(clientState'[h].status) >= Stage(clientState[h].status)]_vars

\* ======================================================================
\* The bound of the retries
\* ======================================================================

\* the calls of initializeClient of part_000 in progress
Attempts == {f \in Running : f.kind \in {"init", "send"}}

\* this step ends the attempt f in the catch block of initializeClient
Caught(f) ==
    \/ InitializeFailed_p0(f)
    \/ clientState[f.cs].promise = "rejected" /\ ReadySettled_p0(f)

\* C33: retryCount is bounded.  No call of initializeClient has a retryCount
\* above MAX_RETRIES, so that one acquire makes at most MAX_RETRIES + 1
\* attempts, and the attempt with retryCount = MAX_RETRIES that fails ends
\* the acquire: the error goes to the route and no further call is made.
C33_RetryBounded ==
    [][\A f \in Attempts :
          /\ f.retry <= MAX_RETRIES
          /\ (f.retry = MAX_RETRIES /\ f.pc = "initialize" /\ Caught(f))
                => /\ \A g \in BagToSet(tasks') : ~(g.pc = "retryWait" /\ Starts(g))
                   /\ f.kind = "init" => resp' = Response("init", f.uid, FALSE, "error", 0)]_vars

\* the third attempt of an acquire has failed and the route has answered
\* with the error
C33_Witness ==
    /\ resp = Response("init", 1, FALSE, "error", 0)
    /\ \A h \in 1..(MAX_RETRIES + 1) : driver[h].phase \in {"failed", "destroyed"}
    /\ tasks = EmptyBag

\* ======================================================================
\* The init timer and the record it was armed for
\* ======================================================================

\* the init timer armed for Client h fires in this step
TimerFires(h) == initTimeout_m2(h) \/ initTimeout_p0(h)

\* C34: an init timer acts only on the record it was armed for.  When the
\* timer of Client h fires, the clientState of no other Client changes and
\* the teardown that starts, if any, is that of h: a record made for the
\* same tenant after the record of h was removed is left alone.
C34_TimerOwnRecord ==
    [][\A h \in Handles :
          TimerFires(h)
             => /\ \A g \in Handles \ {h} : clientState'[g] = clientState[g]
                /\ \A f \in BagToSet(tasks') :
                      Starts(f) /\ f.pc = "destroy" => f.cs = h]_vars

\* ======================================================================
\* The drain pass and the request it dequeued
\* ======================================================================

\* the step leaves a drain pass waiting for the promise of a queue entry
PassWaitsOnQueue ==
    \E f \in BagToSet(tasks') : f.kind = "pq" /\ f.pc = "awaitQueued" /\ Starts(f)

\* C35: every drain pass terminates and resets isProcessingQueue.  The
\* initializeClient call a pass awaits never puts the request the pass
\* dequeued back into the wait queue: no step adds a queue entry whose waiter
\* is the drain, and no step leaves a pass waiting for such an entry while
\* isProcessingQueue stays true.
C35_DrainNeverRequeues ==
    [][/\ ~PassWaitsOnQueue
       /\ Cardinality(Requeued(CONNECTION_QUEUE')) <= Cardinality(Requeued(CONNECTION_QUEUE))]_vars

====
